---- MODULE Spec2Model ----
(***************************************************************************)
(* Model of the Monk Mode BTC/ETH pair-trading bot.                        *)
(*                                                                         *)
(* Units.  Percentages (24h change, spread, thresholds) are counted in     *)
(* half-percent units: 2.0% is 4, 0.5% is 1, 8.0% is 16.  Prices and USD   *)
(* amounts are integers.  Time is in seconds.  A quotient the code forms   *)
(* with "/" is kept exact as a numerator over a stated denominator.        *)
(*                                                                         *)
(* An Optional value is a sequence of length at most one: None is << >>,   *)
(* a present value v is <<v>>.  A dict is a function whose DOMAIN is the   *)
(* set of keys present.                                                    *)
(***************************************************************************)
EXTENDS Integers, Sequences, FiniteSets, TLC

VARIABLES
    cfg,                \* Config.strategy, fixed at construction
    notifiers,          \* MonkPairTrader.notifiers : list of sinks, fixed at construction
    platforms,          \* Config.notifications.include_platforms, as a set
    now,                \* datetime.utcnow(), seconds
    \* MonkPairTrader
    current_position,   \* _current_position : Optional[Position]
    last_signal_time,   \* _last_signal_time : dict direction -> time
    last_spread,        \* _last_spread : Optional[float]
    hpc,                \* where _on_price_update is suspended: "idle", "entry_alert", "close_alert"
    sig,                \* the SpreadSignal most recently passed to _on_price_update, if any
    alert,              \* the AlertPayload being dispatched by _send_alert, if any
    dispatch,           \* what _send_alert's gather over the sinks came to, for the
                        \* latest alert that went out
    fetch_results,      \* what _send_alert's gather over the venue fetches came to, for
                        \* the alert in flight or the latest, once it returned
    upd,                \* parity of the number of _on_price_update invocations
    entry_alert_at,     \* history: direction -> time its latest entry alert was emitted,
                        \* the entry_time of the Position created with it
    last_alert,         \* history: the signal type of the alert emitted last, if any
    rpc,                \* where run() is: "init", "health", "binance_initial",
                        \* "cg_initial", "stream", "polling", "returned"
    t_running,          \* _running
    use_coingecko,      \* _use_coingecko
    stopped,            \* history: stop() has been called
    health,             \* history: what the checks of _check_health came to, once run
    \* BinanceAPI
    b_running,          \* _running
    b_ws,               \* _ws: "none", "open" or "closed" (a connection that has ended)
    reconnect_delay,    \* start_stream's local reconnect_delay
    waits,              \* history: reconnect waits ended since the delay was last reset
    b_other,            \* history: parity of the number of tickers read that were
                        \* for a symbol outside SYMBOLS
    b_seen,             \* history: tracked symbols whose ticker has parsed
    b_bad,              \* history: parity of the number of malformed messages read
    b_sub,              \* history: _ws is open and the SUBSCRIBE request was sent on it
    b_prices,           \* _prices : dict symbol -> PriceData
    bpc,                \* where start_stream is: "idle", "connecting", "reading",
                        \* "handler", "backoff", "done"
    \* CoinGeckoAPI
    c_running,          \* _running
    rate_limited,       \* _rate_limited
    rate_limit_until,   \* _rate_limit_until : Optional[datetime]
    c_prices,           \* _prices : dict symbol -> PriceData
    fetch_count,        \* _fetch_count, kept modulo 2
    cpc,                \* where start_polling is: "idle", "fetching", "handler",
                        \* "sleep", "rl_sleep", "done"
    c_wake,             \* when the asyncio.sleep the loop is in ends
    last_429,           \* history: when the latest rate-limit response arrived, if any
    \* what the sources handed over
    fetched,            \* history: what the latest get_current_prices() came to, if any
    out,                \* history: the observation a source loop produced last, if any
    prod,               \* history: parity of the number of observations the loops produced
    recovery,           \* history: "clean", "failed" once the active loop met a failure,
                        \* "served" once it handed over an observation after that
    after_stop,         \* history: observations handed to the tracker since stop()
    probe               \* the pure-function application under examination, if any

\* what no step of the program changes
fixed == <<cfg, notifiers, platforms, probe>>

trackerVars == <<current_position, last_signal_time, last_spread, hpc, sig,
                 alert, dispatch, fetch_results, upd, entry_alert_at, last_alert>>

runVars == <<rpc, t_running, use_coingecko, stopped, health>>

binanceVars == <<b_running, b_ws, reconnect_delay, b_prices, bpc, waits, b_other,
                 b_seen, b_bad, b_sub>>

coingeckoVars == <<c_running, rate_limited, rate_limit_until, c_prices,
                   fetch_count, cpc, c_wake, last_429>>

feedVars == <<fetched, out, prod, recovery, after_stop>>

sourceVars == <<runVars, binanceVars, coingeckoVars, feedVars>>

vars == <<fixed, now, trackerVars, sourceVars>>

----------------------------------------------------------------------------
(* Bounds of the model *)

\* the clock stops advancing here
MaxTime == 120

\* the same, while the tracker is driven directly
MaxFeedTime == 60

\* how long the environment may let pass in one step (seconds)
TickSteps == {30}

\* consecutive reconnect waits the stream is followed through
MaxWaits == 5

\* observations handed over after stop() that are counted
MaxAfterStop == 2

\* what the venues may report for each leg
WireBtcPrices == {200}
WireEthPrices == {0, 200}
WireBtcChanges == {0, 5}
WireEthChanges == {5}

\* what the Binance REST endpoint may report beyond WireBtcPrices
RestBtcChanges == {0}
RestEthPrices == {200}
RestEthChanges == {5}

\* what an observation handed to the tracker directly may hold for each leg
BtcPrices == {200}
EthPrices == {195, 200, 206}
BtcChanges == {0, 5}
EthChanges == {-12, 0, 1, 4, 5, 16, 17}

----------------------------------------------------------------------------
(* Optional values and small helpers *)

None == << >>

Some(v) == <<v>>

Abs(x) == IF x < 0 THEN -x ELSE x

Min(a, b) == IF a <= b THEN a ELSE b

\* dict assignment d[k] = v
DictSet(d, k, v) == [x \in (DOMAIN d) \cup {k} |-> IF x = k THEN v ELSE d[x]]

EmptyDict == [x \in {} |-> 0]

----------------------------------------------------------------------------
(* src/api/base.py *)

STRATEGY1 == "strategy1"

STRATEGY2 == "strategy2"

CLOSE == "close"

\* the literal 2.0 of SpreadSignal.__post_init__, in half-percent units
PostInitThreshold == 4

PriceData(price, change) == [price |-> price, change_24h_pct |-> change]

\* SpreadSignal(btc, eth, spread_pct) with signal_type left to __post_init__
SpreadSignal(btc, eth, spread) ==
    [btc |-> btc, eth |-> eth, spread_pct |-> spread,
     signal_type |-> IF spread >= PostInitThreshold THEN Some(STRATEGY1)
                     ELSE IF spread <= -PostInitThreshold THEN Some(STRATEGY2)
                     ELSE None]

\* a spread that adds the two changes instead of subtracting them
SpreadOf_Sum(btc, eth) == eth.change_24h_pct + btc.change_24h_pct

\* a spread taken the other way round
SpreadOf_Reversed(btc, eth) == btc.change_24h_pct - eth.change_24h_pct

\* the spread every source computes from its two legs
SpreadOf(btc, eth) == eth.change_24h_pct - btc.change_24h_pct

\* Position without entry_time, which only duration_str (a display string) reads
Position(signal_type, entry_spread, entry_btc_price, entry_eth_price, size) ==
    [signal_type |-> signal_type, entry_spread |-> entry_spread,
     entry_btc_price |-> entry_btc_price, entry_eth_price |-> entry_eth_price,
     position_size_usd |-> size]

\* estimate_pnl divides by both entry prices: a zero entry price raises ZeroDivisionError
PnlRaises(pos) == pos.entry_btc_price = 0 \/ pos.entry_eth_price = 0

\* the denominator over which EstimatePnl is exact
PnlDen(pos) == pos.entry_btc_price * pos.entry_eth_price

\* estimate_pnl with the long and the short leg exchanged
EstimatePnl_Swapped(pos, current_btc, current_eth) ==
    LET btc_pct_change == (current_btc - pos.entry_btc_price) * pos.entry_eth_price
        eth_pct_change == (current_eth - pos.entry_eth_price) * pos.entry_btc_price
    IN  IF pos.signal_type = STRATEGY1
        THEN (eth_pct_change - btc_pct_change) * pos.position_size_usd
        ELSE (btc_pct_change - eth_pct_change) * pos.position_size_usd

\* estimate_pnl whose STRATEGY2 branch repeats the STRATEGY1 branch
EstimatePnl_OneSided(pos, current_btc, current_eth) ==
    LET btc_pct_change == (current_btc - pos.entry_btc_price) * pos.entry_eth_price
        eth_pct_change == (current_eth - pos.entry_eth_price) * pos.entry_btc_price
    IN  (btc_pct_change - eth_pct_change) * pos.position_size_usd

\* estimate_pnl that adds the STRATEGY1 short leg with the sign of a long leg
EstimatePnl_NoShortFlip(pos, current_btc, current_eth) ==
    LET btc_pct_change == (current_btc - pos.entry_btc_price) * pos.entry_eth_price
        eth_pct_change == (current_eth - pos.entry_eth_price) * pos.entry_btc_price
    IN  IF pos.signal_type = STRATEGY1
        THEN (btc_pct_change + eth_pct_change) * pos.position_size_usd
        ELSE (eth_pct_change - btc_pct_change) * pos.position_size_usd

\* estimate_pnl(current_btc, current_eth) * PnlDen(pos)
EstimatePnl(pos, current_btc, current_eth) ==
    LET btc_pct_change == (current_btc - pos.entry_btc_price) * pos.entry_eth_price
        eth_pct_change == (current_eth - pos.entry_eth_price) * pos.entry_btc_price
        btc_pnl == IF pos.signal_type = STRATEGY1
                   THEN btc_pct_change * pos.position_size_usd
                   ELSE (-btc_pct_change) * pos.position_size_usd
        eth_pnl == IF pos.signal_type = STRATEGY1
                   THEN (-eth_pct_change) * pos.position_size_usd
                   ELSE eth_pct_change * pos.position_size_usd
    IN  btc_pnl + eth_pnl

----------------------------------------------------------------------------
(* src/config.py *)

\* StrategyConfig with its default values, the cooldown shortened from 300 to 60
DefaultConfig ==
    [spread_threshold |-> 4, spread_max |-> 16, spread_close_threshold |-> 2,
     position_size_usd |-> 1000, take_profit_usd |-> 25, cooldown_sec |-> 60,
     polling_interval_sec |-> 30]

\* a second configuration that validate() accepts
AltConfig ==
    [spread_threshold |-> 1, spread_max |-> 12, spread_close_threshold |-> 4,
     position_size_usd |-> 1000, take_profit_usd |-> 30, cooldown_sec |-> 30,
     polling_interval_sec |-> 90]

\* Config.validate(), the checks on the strategy section
ValidateStrategy(c) == c.spread_threshold > 0 /\ c.spread_threshold < c.spread_max

Configs == {c \in {DefaultConfig, AltConfig} : ValidateStrategy(c)}

\* Python's "not value" for an Optional[str]: None or the empty string
Lacking(value) == value = None \/ value = Some("")

\* validate() without the check of the Telegram chat id
Validate_NoChatId(c) ==
    (IF c.telegram_enabled /\ Lacking(c.telegram_bot_token)
     THEN <<"TELEGRAM_BOT_TOKEN is required when Telegram is enabled">> ELSE << >>)
    \o (IF c.discord_enabled /\ Lacking(c.discord_webhook_url)
        THEN <<"DISCORD_WEBHOOK_URL is required when Discord is enabled">> ELSE << >>)
    \o (IF c.spread_threshold <= 0
        THEN <<"spread_threshold must be positive">> ELSE << >>)
    \o (IF c.spread_threshold >= c.spread_max
        THEN <<"spread_threshold must be less than spread_max">> ELSE << >>)

\* Config.validate(): the list of errors, in the order they are appended
Validate(c) ==
    (IF c.telegram_enabled /\ Lacking(c.telegram_bot_token)
     THEN <<"TELEGRAM_BOT_TOKEN is required when Telegram is enabled">> ELSE << >>)
    \o (IF c.telegram_enabled /\ Lacking(c.telegram_chat_id)
        THEN <<"TELEGRAM_CHAT_ID is required when Telegram is enabled">> ELSE << >>)
    \o (IF c.discord_enabled /\ Lacking(c.discord_webhook_url)
        THEN <<"DISCORD_WEBHOOK_URL is required when Discord is enabled">> ELSE << >>)
    \o (IF c.spread_threshold <= 0
        THEN <<"spread_threshold must be positive">> ELSE << >>)
    \o (IF c.spread_threshold >= c.spread_max
        THEN <<"spread_threshold must be less than spread_max">> ELSE << >>)

----------------------------------------------------------------------------
(* src/notifiers/base.py *)

AlertSIGNAL == "signal"

AlertCLOSE == "close"

AlertPayload(signal, alert_type, position, estimated_pnl) ==
    [signal |-> signal, alert_type |-> alert_type, position |-> position,
     estimated_pnl |-> estimated_pnl]

\* what a sink's send(payload) may do: return True, return False, or raise
SendOutcomes == {"True", "False", "raised"}

----------------------------------------------------------------------------
(* src/strategy/pair_trader.py: the position tracker *)

TELEGRAM == "TelegramNotifier"

DISCORD == "DiscordNotifier"

\* the lists of sinks the tracker is driven with directly: Telegram first, then
\* Discord, each present or not.  (What __init__ itself comes to is Construct.)
NotifierLists == {<< >>, <<TELEGRAM>>, <<DISCORD>>, <<TELEGRAM, DISCORD>>}

\* the parameters after self of TelegramNotifier.__init__ and of
\* DiscordNotifier.__init__; none of them has a default
TelegramParameters == <<"bot_token", "chat_id">>

DiscordParameters == <<"webhook_url">>

\* how MonkPairTrader.__init__ calls the two constructors
TelegramCall == [positional |-> 2, keywords |-> {}]

DiscordCall == [positional |-> 0, keywords |-> {"webhook_url", "role_id"}]

\* Python's binding of a call to parameters without defaults: the positional
\* arguments fill the first parameters, the keywords must be exactly the rest;
\* anything else raises TypeError
Accepted(parameters, call) ==
    /\ call.positional <= Len(parameters)
    /\ call.keywords = {parameters[i] : i \in (call.positional + 1)..Len(parameters)}

\* MonkPairTrader.__init__, "Initialize notifiers": the list it builds, or the
\* TypeError of a constructor call that is not accepted
Construct(c) ==
    LET telegram == c.telegram_enabled /\ ~Lacking(c.telegram_bot_token)
        discord == c.discord_enabled /\ ~Lacking(c.discord_webhook_url)
        raised == \/ telegram /\ ~Accepted(TelegramParameters, TelegramCall)
                  \/ discord /\ ~Accepted(DiscordParameters, DiscordCall)
    IN  [raised |-> raised,
         notifiers |-> IF raised THEN << >>
                       ELSE (IF telegram THEN <<TELEGRAM>> ELSE << >>)
                            \o (IF discord THEN <<DISCORD>> ELSE << >>)]

\* a dispatch that awaits the sinks one after the other and lets a raise through
SendAll_Sequential(outcomes) ==
    LET first_raise == IF \E i \in DOMAIN outcomes : outcomes[i] = "raised"
                       THEN CHOOSE i \in DOMAIN outcomes :
                               /\ outcomes[i] = "raised"
                               /\ \A j \in DOMAIN outcomes :
                                      outcomes[j] = "raised" => i <= j
                       ELSE Len(notifiers)
    IN  [invoked |-> [i \in DOMAIN notifiers |-> IF i <= first_raise THEN 1 ELSE 0],
         results |-> outcomes,
         raised |-> \E i \in DOMAIN outcomes : outcomes[i] = "raised"]

\* _send_alert: "tasks = [notifier.send(payload) for notifier in self.notifiers]"
\* and "await asyncio.gather(*tasks, return_exceptions=True)": how often each
\* sink's send was invoked, what each came to, whether _send_alert raises
SendAll(outcomes) ==
    [invoked |-> [i \in DOMAIN notifiers |-> 1],
     results |-> outcomes,
     raised |-> FALSE]

\* _check_entry_signal: "if abs(signal.spread_pct) < threshold: return"
BelowThreshold(signal) == Abs(signal.spread_pct) < cfg.spread_threshold

\* a ceiling test that also rejects a spread exactly at the ceiling
AboveMax_Inclusive(signal) == Abs(signal.spread_pct) >= cfg.spread_max

\* _check_entry_signal: "if abs(signal.spread_pct) > max_spread: ... return"
AboveMax(signal) == Abs(signal.spread_pct) > cfg.spread_max

\* _check_entry_signal: the if / elif / else that picks the direction (None: return)
EntrySignalType(signal) ==
    IF signal.spread_pct >= cfg.spread_threshold THEN Some(STRATEGY1)
    ELSE IF signal.spread_pct <= -cfg.spread_threshold THEN Some(STRATEGY2)
    ELSE None

\* a cooldown test that still suppresses when exactly the cooldown has elapsed
InCooldown_Inclusive(signal_type) ==
    /\ signal_type \in DOMAIN last_signal_time
    /\ (now - last_signal_time[signal_type]) <= cfg.cooldown_sec

\* a cooldown test that never suppresses
InCooldown_Off(signal_type) == FALSE

\* a cooldown test that lets a recent fire of either direction suppress
InCooldown_AnyDirection(signal_type) ==
    \E d \in DOMAIN last_signal_time : (now - last_signal_time[d]) < cfg.cooldown_sec

\* _check_entry_signal: "if last_time and (datetime.utcnow() - last_time) < cooldown"
InCooldown(signal_type) ==
    /\ signal_type \in DOMAIN last_signal_time
    /\ (now - last_signal_time[signal_type]) < cfg.cooldown_sec

\* a handler path that returns without touching the tracker
HandlerReturns(signal) ==
    /\ sig' = Some(signal)
    /\ UNCHANGED <<current_position, last_signal_time, hpc, alert, dispatch,
                   fetch_results, entry_alert_at, last_alert>>

\* an entry check that records the cooldown before it sends the alert
CheckEntrySignal_LedgerFirst(signal) ==
    IF BelowThreshold(signal) THEN HandlerReturns(signal)
    ELSE IF AboveMax(signal) THEN HandlerReturns(signal)
    ELSE IF EntrySignalType(signal) = None THEN HandlerReturns(signal)
    ELSE LET signal_type == EntrySignalType(signal)[1]
             typed == [signal EXCEPT !.signal_type = Some(signal_type)]
         IN  IF InCooldown(signal_type) THEN HandlerReturns(typed)
             ELSE /\ current_position' =
                        Some(Position(signal_type, signal.spread_pct, signal.btc.price,
                                      signal.eth.price, cfg.position_size_usd))
                  /\ sig' = Some(typed)
                  /\ alert' = Some(AlertPayload(typed, AlertSIGNAL, None, None))
                  /\ hpc' = "entry_alert"
                  /\ dispatch' = None
                  /\ fetch_results' = None
                  /\ entry_alert_at' = DictSet(entry_alert_at, signal_type, now)
                  /\ last_alert' = Some(signal_type)
                  /\ last_signal_time' = DictSet(last_signal_time, signal_type, now)

\* _check_entry_signal up to its "await self._send_alert(signal, AlertType.SIGNAL)"
CheckEntrySignal(signal) ==
    IF BelowThreshold(signal) THEN HandlerReturns(signal)
    ELSE IF AboveMax(signal) THEN HandlerReturns(signal)
    ELSE IF EntrySignalType(signal) = None THEN HandlerReturns(signal)
    ELSE LET signal_type == EntrySignalType(signal)[1]
             typed == [signal EXCEPT !.signal_type = Some(signal_type)]
         IN  IF InCooldown(signal_type) THEN HandlerReturns(typed)
             ELSE /\ current_position' =
                        Some(Position(signal_type, signal.spread_pct, signal.btc.price,
                                      signal.eth.price, cfg.position_size_usd))
                  /\ sig' = Some(typed)
                  /\ alert' = Some(AlertPayload(typed, AlertSIGNAL, None, None))
                  /\ hpc' = "entry_alert"
                  /\ dispatch' = None
                  /\ fetch_results' = None
                  /\ entry_alert_at' = DictSet(entry_alert_at, signal_type, now)
                  /\ last_alert' = Some(signal_type)
                  /\ UNCHANGED last_signal_time

\* a close test that also takes a position held for the cooldown period as due
SpreadNormalized_OrExpired(signal) ==
    \/ Abs(signal.spread_pct) <= cfg.spread_close_threshold
    \/ now - entry_alert_at[current_position[1].signal_type] >= cfg.cooldown_sec

\* _check_close_signal: "spread_normalized = abs(signal.spread_pct) <= close_threshold"
SpreadNormalized(signal) == Abs(signal.spread_pct) <= cfg.spread_close_threshold

\* a take-profit test that needs the PnL to exceed the amount
Profitable_Strict(position, signal) ==
    EstimatePnl(position, signal.btc.price, signal.eth.price)
        > cfg.take_profit_usd * PnlDen(position)

\* _check_close_signal: "estimated_pnl >= take_profit", both sides times PnlDen
Profitable(position, signal) ==
    EstimatePnl(position, signal.btc.price, signal.eth.price)
        >= cfg.take_profit_usd * PnlDen(position)

\* a close check that clears the position before it sends the alert
CheckCloseSignal_ClearFirst(signal) ==
    LET position == current_position[1] IN
    IF PnlRaises(position) THEN HandlerReturns(signal)
    ELSE IF SpreadNormalized(signal) /\ Profitable(position, signal)
    THEN LET closing == [signal EXCEPT !.signal_type = Some(CLOSE)] IN
         /\ sig' = Some(closing)
         /\ alert' = Some(AlertPayload(closing, AlertCLOSE, Some(position),
                Some(EstimatePnl(position, signal.btc.price, signal.eth.price))))
         /\ hpc' = "close_alert"
         /\ dispatch' = None
         /\ fetch_results' = None
         /\ current_position' = None
         /\ last_alert' = Some(CLOSE)
         /\ UNCHANGED <<last_signal_time, entry_alert_at>>
    ELSE HandlerReturns(signal)

\* _check_close_signal up to its "await self._send_alert(signal, AlertType.CLOSE, ...)";
\* a raising estimate_pnl leaves the handler with nothing changed
CheckCloseSignal(signal) ==
    LET position == current_position[1] IN
    IF PnlRaises(position) THEN HandlerReturns(signal)
    ELSE IF SpreadNormalized(signal) /\ Profitable(position, signal)
    THEN LET closing == [signal EXCEPT !.signal_type = Some(CLOSE)] IN
         /\ sig' = Some(closing)
         /\ alert' = Some(AlertPayload(closing, AlertCLOSE, Some(position),
                Some(EstimatePnl(position, signal.btc.price, signal.eth.price))))
         /\ hpc' = "close_alert"
         /\ dispatch' = None
         /\ fetch_results' = None
         /\ last_alert' = Some(CLOSE)
         /\ UNCHANGED <<current_position, last_signal_time, entry_alert_at>>
    ELSE HandlerReturns(signal)

\* whether _on_price_update(signal) ends by raising (out of estimate_pnl)
HandlerRaises == current_position # None /\ PnlRaises(current_position[1])

\* _on_price_update without the "return" after the close check
OnPriceUpdate_NoReturn(signal) ==
    /\ last_spread' = Some(signal.spread_pct)
    /\ upd' = 1 - upd
    /\ IF /\ current_position # None
          /\ ~PnlRaises(current_position[1])
          /\ SpreadNormalized(signal)
          /\ Profitable(current_position[1], signal)
       THEN CheckCloseSignal(signal)
       ELSE CheckEntrySignal(signal)

\* _on_price_update recording the spread only on its way to the entry check
OnPriceUpdate_LateSpread(signal) ==
    /\ last_spread' = IF current_position # None THEN last_spread
                      ELSE Some(signal.spread_pct)
    /\ upd' = 1 - upd
    /\ IF current_position # None THEN CheckCloseSignal(signal)
       ELSE CheckEntrySignal(signal)

\* _on_price_update dropping a held position when the spread is above the ceiling
OnPriceUpdate_CeilingStop(signal) ==
    /\ last_spread' = Some(signal.spread_pct)
    /\ upd' = 1 - upd
    /\ IF current_position # None
       THEN IF AboveMax(signal)
            THEN /\ current_position' = None
                 /\ sig' = Some(signal)
                 /\ UNCHANGED <<last_signal_time, hpc, alert, dispatch, fetch_results,
                                entry_alert_at, last_alert>>
            ELSE CheckCloseSignal(signal)
       ELSE CheckEntrySignal(signal)

\* _on_price_update, run until it returns or suspends in _send_alert
OnPriceUpdate(signal) ==
    /\ last_spread' = Some(signal.spread_pct)
    /\ upd' = 1 - upd
    /\ IF current_position # None THEN CheckCloseSignal(signal)
       ELSE CheckEntrySignal(signal)

\* the venues _send_alert knows
PlatformNames == {"variational", "extended"}

\* what a venue's get_prices() may come to: a dict with prices, an empty dict
\* (a status that is not 200, a failure it caught), or a raise
FetchOutcomes == {"prices", "empty", "raised"}

\* _send_alert: the fetch_tasks list, by platform name
FetchTasks ==
    (IF "variational" \in platforms THEN <<"variational">> ELSE << >>)
    \o (IF "extended" \in platforms THEN <<"extended">> ELSE << >>)

\* a dispatch that does not wait for the venue fetches
FetchesDone_NoWait == TRUE

\* _send_alert: "if fetch_tasks: results = await asyncio.gather(...)" is behind it
FetchesDone == FetchTasks = << >> \/ fetch_results # None

\* _send_alert: the gather over the venue fetches returns
VenuesFetched ==
    /\ hpc # "idle"
    /\ FetchTasks # << >>
    /\ fetch_results = None
    /\ \E results \in [{FetchTasks[i] : i \in DOMAIN FetchTasks} -> FetchOutcomes] :
          fetch_results' = Some(results)
    /\ UNCHANGED <<current_position, last_signal_time, last_spread, hpc, sig, alert,
                   dispatch, upd, entry_alert_at, last_alert>>

\* _check_entry_signal after the alert went out: "self._last_signal_time[...] = utcnow()"
EntryAlertSent ==
    /\ hpc = "entry_alert"
    /\ FetchesDone
    /\ \E outcomes \in [DOMAIN notifiers -> SendOutcomes] :
          LET sent == SendAll(outcomes) IN
          /\ dispatch' = Some(sent)
          /\ last_signal_time' =
                IF sent.raised THEN last_signal_time
                ELSE DictSet(last_signal_time, sig[1].signal_type[1], now)
    /\ hpc' = "idle"
    /\ alert' = None
    /\ UNCHANGED <<current_position, last_spread, sig, fetch_results, upd,
                   entry_alert_at, last_alert>>

\* a close that never clears the position
CloseAlertSent_KeepsPosition ==
    /\ hpc = "close_alert"
    /\ FetchesDone
    /\ \E outcomes \in [DOMAIN notifiers -> SendOutcomes] :
          dispatch' = Some(SendAll(outcomes))
    /\ hpc' = "idle"
    /\ alert' = None
    /\ UNCHANGED <<current_position, last_signal_time, last_spread, sig, fetch_results,
                   upd, entry_alert_at, last_alert>>

\* a close that also forgets the cooldown of the direction it closes
CloseAlertSent_ResetsLedger ==
    /\ hpc = "close_alert"
    /\ FetchesDone
    /\ \E outcomes \in [DOMAIN notifiers -> SendOutcomes] :
          LET sent == SendAll(outcomes) IN
          /\ dispatch' = Some(sent)
          /\ current_position' =
                IF sent.raised THEN current_position ELSE None
    /\ last_signal_time' =
          [d \in DOMAIN last_signal_time \ {current_position[1].signal_type}
              |-> last_signal_time[d]]
    /\ hpc' = "idle"
    /\ alert' = None
    /\ UNCHANGED <<last_spread, sig, fetch_results, upd, entry_alert_at, last_alert>>

\* a close that keeps the position when a sink did not take the alert
CloseAlertSent_OnlyIfDelivered ==
    /\ hpc = "close_alert"
    /\ FetchesDone
    /\ \E outcomes \in [DOMAIN notifiers -> SendOutcomes] :
          LET sent == SendAll(outcomes) IN
          /\ dispatch' = Some(sent)
          /\ current_position' =
                IF \E i \in DOMAIN outcomes : outcomes[i] # "True"
                THEN current_position ELSE None
    /\ hpc' = "idle"
    /\ alert' = None
    /\ UNCHANGED <<last_signal_time, last_spread, sig, fetch_results, upd,
                   entry_alert_at, last_alert>>

\* _check_close_signal after the alert went out: "self._current_position = None"
CloseAlertSent ==
    /\ hpc = "close_alert"
    /\ FetchesDone
    /\ \E outcomes \in [DOMAIN notifiers -> SendOutcomes] :
          LET sent == SendAll(outcomes) IN
          /\ dispatch' = Some(sent)
          /\ current_position' =
                IF sent.raised THEN current_position ELSE None
    /\ hpc' = "idle"
    /\ alert' = None
    /\ UNCHANGED <<last_signal_time, last_spread, sig, fetch_results, upd,
                   entry_alert_at, last_alert>>

\* a snapshot that takes a recorded cooldown for an open position
Status_FromLedger ==
    [running |-> t_running,
     last_spread |-> last_spread,
     has_position |-> DOMAIN last_signal_time # {},
     position |-> IF current_position # None
                  THEN Some([type |-> current_position[1].signal_type,
                             entry_spread |-> current_position[1].entry_spread])
                  ELSE None,
     notifiers |-> notifiers]

\* the status property, without the position's duration string
Status ==
    [running |-> t_running,
     last_spread |-> last_spread,
     has_position |-> current_position # None,
     position |-> IF current_position # None
                  THEN Some([type |-> current_position[1].signal_type,
                             entry_spread |-> current_position[1].entry_spread])
                  ELSE None,
     notifiers |-> notifiers]

----------------------------------------------------------------------------
(* src/api/binance.py *)

\* BinanceAPI._reconnect_delay
ReconnectDelay == 5

\* BinanceAPI._max_reconnect_delay
MaxReconnectDelay == 60

\* BinanceAPI.SYMBOLS, read from the venue's symbol to ours (symbol_map)
SymbolMap == [BTCUSDT |-> "BTC", ETHUSDT |-> "ETH"]

Legs(prices, changes) == {PriceData(p, c) : p \in prices, c \in changes}

\* what may arrive on the WebSocket: the subscription confirmation, text that is
\* not JSON, JSON that is not an object, a tracked-symbol ticker with a null
\* field, and tickers ("ok": every field is there and parses as a float)
WireMessages ==
    {[kind |-> "ack"], [kind |-> "garbage"], [kind |-> "nondict"]}
    \cup {[kind |-> "nullfield", s |-> x] : x \in {"BTCUSDT", "ETHUSDT"}}
    \cup {[kind |-> "ticker", s |-> "BTCUSDT", ok |-> TRUE, c |-> l.price,
           P |-> l.change_24h_pct] : l \in Legs(WireBtcPrices, WireBtcChanges)}
    \cup {[kind |-> "ticker", s |-> "ETHUSDT", ok |-> TRUE, c |-> l.price,
           P |-> l.change_24h_pct] : l \in Legs(WireEthPrices, WireEthChanges)}
    \cup {[kind |-> "ticker", s |-> x, ok |-> FALSE, c |-> 0, P |-> 0] :
            x \in {"BTCUSDT", "ETHUSDT"}}
    \cup {[kind |-> "ticker", s |-> "BNBUSDT", ok |-> TRUE, c |-> 200, P |-> 5]}

\* b_other once this message is read
Other(message) ==
    IF message.kind = "ticker" /\ message.s \notin DOMAIN SymbolMap
    THEN 1 - b_other
    ELSE b_other

\* the tracked symbols parsed so far, this message included
Seen(message) ==
    IF message.kind = "ticker" /\ message.ok /\ message.s \in DOMAIN SymbolMap
    THEN b_seen \cup {message.s}
    ELSE b_seen

\* whether a message is malformed: not JSON, not an object, or a tracked-symbol
\* ticker with a field that is missing, null or not a number
Malformed(message) ==
    \/ message.kind \in {"garbage", "nondict", "nullfield"}
    \/ message.kind = "ticker" /\ message.s \in DOMAIN SymbolMap /\ ~message.ok

\* b_bad once this message is read
Bad(message) == IF Malformed(message) THEN 1 - b_bad ELSE b_bad

\* a ticker handler that stores a zero leg when a field does not parse
HandleTicker_Lenient(data) ==
    IF data.s \notin DOMAIN SymbolMap
    THEN [prices |-> b_prices, signal |-> None]
    ELSE LET prices == DictSet(b_prices, SymbolMap[data.s], PriceData(data.c, data.P))
         IN  [prices |-> prices,
              signal |-> IF "BTC" \in DOMAIN prices /\ "ETH" \in DOMAIN prices
                         THEN Some(SpreadSignal(prices["BTC"], prices["ETH"],
                                                SpreadOf(prices["BTC"], prices["ETH"])))
                         ELSE None]

\* _handle_ticker(data): the cache it leaves and the signal it returns
HandleTicker(data) ==
    IF data.s \notin DOMAIN SymbolMap
    THEN [prices |-> b_prices, signal |-> None]
    ELSE IF ~data.ok
    THEN [prices |-> b_prices, signal |-> None]
    ELSE LET prices == DictSet(b_prices, SymbolMap[data.s], PriceData(data.c, data.P))
         IN  [prices |-> prices,
              signal |-> IF "BTC" \in DOMAIN prices /\ "ETH" \in DOMAIN prices
                         THEN Some(SpreadSignal(prices["BTC"], prices["ETH"],
                                                SpreadOf(prices["BTC"], prices["ETH"])))
                         ELSE None]

\* what the 24hr ticker endpoint may answer for one symbol: 200 with a body that
\* parses, another status, or a failure that raises (transport, body, a field)
RestAnswersFor(legs) ==
    {[kind |-> "ok", leg |-> l] : l \in legs}
    \cup {[kind |-> "status", leg |-> PriceData(0, 0)],
          [kind |-> "raise", leg |-> PriceData(0, 0)]}

RestAnswers ==
    {[x \in {"BTC", "ETH"} |-> IF x = "BTC" THEN b ELSE e] :
        b \in RestAnswersFor(Legs(WireBtcPrices, RestBtcChanges)),
        e \in RestAnswersFor(Legs(RestEthPrices, RestEthChanges))}

\* get_current_prices(): the legs it collected and what it returns.  A raise ends
\* the loop over the symbols at once; another status only skips the symbol.
BinanceRest(answers) ==
    LET btc == answers["BTC"]
        eth == answers["ETH"]
        p1 == IF btc.kind = "ok" THEN DictSet(EmptyDict, "BTC", btc.leg) ELSE EmptyDict
        p2 == IF eth.kind = "ok" THEN DictSet(p1, "ETH", eth.leg) ELSE p1
    IN  IF btc.kind = "raise" THEN [prices |-> EmptyDict, signal |-> None]
        ELSE IF eth.kind = "raise" THEN [prices |-> p1, signal |-> None]
        ELSE [prices |-> p2,
              signal |-> IF "BTC" \in DOMAIN p2 /\ "ETH" \in DOMAIN p2
                         THEN Some(SpreadSignal(p2["BTC"], p2["ETH"],
                                                SpreadOf(p2["BTC"], p2["ETH"])))
                         ELSE None]

\* get_cached_signal()
BinanceCachedSignal ==
    IF "BTC" \in DOMAIN b_prices /\ "ETH" \in DOMAIN b_prices
    THEN Some(SpreadSignal(b_prices["BTC"], b_prices["ETH"],
                           SpreadOf(b_prices["BTC"], b_prices["ETH"])))
    ELSE None

\* a reconnect loop that gives up at the first failure
StreamAfterTry_Exit == bpc' = "done" /\ rpc' = "returned"

\* start_stream once the try block is left: "if self._running:" sleep and go round,
\* else the while condition ends the loop and run() returns
StreamAfterTry ==
    IF b_running
    THEN bpc' = "backoff" /\ rpc' = rpc
    ELSE bpc' = "done" /\ rpc' = "returned"

\* the loop met a failure
Failed == recovery' = "failed"

\* the loop handed an observation to on_update, which returned
Served == recovery' = IF recovery = "failed" THEN "served" ELSE recovery

\* a stream that reads on while the handler is still in flight
StreamResumes_NoAwait(handler) == "reading"

\* "await on_update(signal)": the loop reads its next message only once the
\* handler has returned
StreamResumes(handler) == IF handler = "idle" THEN "reading" ELSE "handler"

\* a delay that doubles without a ceiling
NextDelay_Uncapped(delay) == delay * 2

\* "reconnect_delay = min(reconnect_delay * 2, self._max_reconnect_delay)"
NextDelay(delay) == Min(delay * 2, MaxReconnectDelay)

\* a stream that subscribes on its first connection only
Subscribed_FirstOnly(outcome) == outcome = "connected" /\ b_ws = "none"

\* "await ws.send(json.dumps(subscribe_msg))" on the connection just made: whether
\* the request went out
Subscribed(outcome) == outcome = "connected"

\* websockets.connect and the subscribe: both succeed, the connect fails, or the
\* send on the new connection fails
StreamConnect ==
    /\ rpc = "stream"
    /\ bpc = "connecting"
    /\ \E outcome \in {"connected", "refused", "send_failed"} :
          CASE outcome = "connected" ->
                  /\ b_ws' = "open"
                  /\ b_sub' = Subscribed(outcome)
                  /\ reconnect_delay' = ReconnectDelay
                  /\ waits' = 0
                  /\ bpc' = "reading"
                  /\ rpc' = rpc
                  /\ UNCHANGED recovery
            [] outcome = "refused" ->
                  /\ StreamAfterTry
                  /\ Failed
                  /\ UNCHANGED <<b_ws, b_sub, reconnect_delay, waits>>
            [] outcome = "send_failed" ->
                  /\ b_ws' = "closed"
                  /\ b_sub' = Subscribed(outcome)
                  /\ StreamAfterTry
                  /\ Failed
                  /\ UNCHANGED <<reconnect_delay, waits>>
    /\ UNCHANGED <<fixed, now, trackerVars, t_running, use_coingecko, stopped, health,
                   b_running, b_prices, b_other, b_seen, b_bad, coingeckoVars,
                   fetched, out, prod, after_stop>>

\* one turn of "async for message in ws"
StreamMessage ==
    /\ rpc = "stream"
    /\ bpc = "reading"
    /\ \E message \in WireMessages :
          /\ b_other' = Other(message)
          /\ b_bad' = IF b_running THEN Bad(message) ELSE b_bad
          /\ IF ~b_running
             THEN \* break
                  /\ b_ws' = "closed"
                  /\ StreamAfterTry
                  /\ UNCHANGED <<b_prices, b_seen, trackerVars, out, prod, after_stop, recovery>>
             ELSE CASE message.kind = "garbage" ->
                         \* json.JSONDecodeError, logged
                         /\ Failed
                         /\ UNCHANGED <<b_ws, b_prices, b_seen, bpc, rpc, trackerVars,
                                        out, prod, after_stop>>
                    [] message.kind = "ack" ->
                         \* "result" in data or "id" in data: continue
                         UNCHANGED <<b_ws, b_prices, b_seen, bpc, rpc, trackerVars,
                                     out, prod, after_stop, recovery>>
                    [] message.kind = "nondict" ->
                         \* data.get raises: caught by "except Exception" around the connection
                         /\ b_ws' = "closed"
                         /\ StreamAfterTry
                         /\ Failed
                         /\ UNCHANGED <<b_prices, b_seen, trackerVars, out, prod, after_stop>>
                    [] message.kind = "nullfield" ->
                         \* float(None) raises TypeError, which _handle_ticker's
                         \* "except (KeyError, ValueError)" lets through to the
                         \* "except Exception" around the connection
                         /\ b_ws' = "closed"
                         /\ StreamAfterTry
                         /\ Failed
                         /\ UNCHANGED <<b_prices, b_seen, trackerVars, out, prod, after_stop>>
                    [] message.kind = "ticker" ->
                         LET r == HandleTicker(message) IN
                         /\ b_prices' = r.prices
                         /\ b_seen' = Seen(message)
                         /\ IF r.signal = None
                            THEN /\ IF message.s \in DOMAIN SymbolMap /\ ~message.ok
                                    THEN Failed ELSE UNCHANGED recovery
                                 /\ UNCHANGED <<b_ws, bpc, rpc, trackerVars, out, prod, after_stop>>
                            ELSE /\ out' = r.signal
                                 /\ prod' = 1 - prod
                                 /\ stopped => after_stop < MaxAfterStop
                                 /\ after_stop' = IF stopped THEN after_stop + 1 ELSE after_stop
                                 /\ OnPriceUpdate(r.signal[1])
                                 /\ IF HandlerRaises
                                    THEN b_ws' = "closed" /\ StreamAfterTry /\ Failed
                                    ELSE /\ bpc' = StreamResumes(hpc')
                                         /\ Served
                                         /\ UNCHANGED <<b_ws, rpc>>
    /\ b_sub' = (b_sub /\ b_ws' = "open")
    /\ UNCHANGED <<fixed, now, t_running, use_coingecko, stopped, health, b_running,
                   reconnect_delay, waits, coingeckoVars, fetched>>

\* the connection ends: ConnectionClosed or another transport error
StreamClosed ==
    /\ rpc = "stream"
    /\ bpc = "reading"
    /\ b_ws' = "closed"
    /\ b_sub' = FALSE
    /\ StreamAfterTry
    /\ Failed
    /\ UNCHANGED <<fixed, now, trackerVars, t_running, use_coingecko, stopped, health,
                   b_running, reconnect_delay, waits, b_prices, b_other, b_seen, b_bad,
                   coingeckoVars, fetched, out, prod, after_stop>>

\* "await asyncio.sleep(reconnect_delay)" ends; the delay doubles up to the maximum
\* and the while condition is read.  The clock is left to Tick.
StreamBackoffDone ==
    /\ rpc = "stream"
    /\ bpc = "backoff"
    /\ waits < MaxWaits
    /\ waits' = waits + 1
    /\ reconnect_delay' = NextDelay(reconnect_delay)
    /\ IF b_running
       THEN bpc' = "connecting" /\ rpc' = rpc
       ELSE bpc' = "done" /\ rpc' = "returned"
    /\ UNCHANGED <<fixed, now, trackerVars, t_running, use_coingecko, stopped, health,
                   b_running, b_ws, b_prices, b_other, b_seen, b_bad, b_sub, coingeckoVars,
                   feedVars>>

\* "await on_update(signal)" returns to the stream after an entry alert
StreamEntryAlertSent ==
    /\ rpc = "stream"
    /\ bpc = "handler"
    /\ EntryAlertSent
    /\ bpc' = "reading"
    /\ UNCHANGED <<fixed, now, runVars, b_running, b_ws, reconnect_delay, waits,
                   b_prices, b_other, b_seen, b_bad, b_sub, coingeckoVars, feedVars>>

\* "await on_update(signal)" returns to the stream after a close alert
StreamCloseAlertSent ==
    /\ rpc = "stream"
    /\ bpc = "handler"
    /\ CloseAlertSent
    /\ bpc' = "reading"
    /\ UNCHANGED <<fixed, now, runVars, b_running, b_ws, reconnect_delay, waits,
                   b_prices, b_other, b_seen, b_bad, b_sub, coingeckoVars, feedVars>>

\* BinanceAPI.stop(); closing an open _ws shows as StreamClosed
BinanceStop == b_running' = FALSE

----------------------------------------------------------------------------
(* src/api/coingecko.py *)

\* get_current_prices: "timedelta(seconds=60)"
RateLimitCooldownSec == 60

\* what the simple-price endpoint may answer: 429, another failure (a status that
\* is not 200, a transport error, a body that does not parse), or 200 with a
\* dict holding the legs that carry "usd"
WireResponses ==
    {[status |-> 429], [status |-> 500]}
    \cup {[status |-> 200, prices |-> [x \in {"BTC", "ETH"} |->
                IF x = "BTC" THEN btc ELSE eth]] :
            btc \in Legs(WireBtcPrices, WireBtcChanges),
            eth \in Legs(WireEthPrices, WireEthChanges)}
    \cup {[status |-> 200, prices |-> [x \in {"BTC"} |-> btc]] :
            btc \in Legs(WireBtcPrices, WireBtcChanges)}
    \cup {[status |-> 200, prices |-> EmptyDict]}

\* a fetch that updates the cache leg by leg and keeps what the response lacks
FetchResult_Merge(resp) ==
    IF resp.status = 429
    THEN [rate_limited |-> TRUE,
          rate_limit_until |-> Some(now + RateLimitCooldownSec),
          prices |-> c_prices, signal |-> None]
    ELSE IF resp.status # 200
    THEN [rate_limited |-> rate_limited, rate_limit_until |-> rate_limit_until,
          prices |-> c_prices, signal |-> None]
    ELSE LET merged == [x \in DOMAIN c_prices \cup DOMAIN resp.prices |->
                           IF x \in DOMAIN resp.prices THEN resp.prices[x]
                           ELSE c_prices[x]]
         IN  [rate_limited |-> rate_limited, rate_limit_until |-> rate_limit_until,
              prices |-> merged,
              signal |-> IF "BTC" \in DOMAIN merged /\ "ETH" \in DOMAIN merged
                         THEN Some(SpreadSignal(merged["BTC"], merged["ETH"],
                                   SpreadOf(merged["BTC"], merged["ETH"])))
                         ELSE None]

\* get_current_prices(), from the response on: the fields it leaves and its result
FetchResult(resp) ==
    IF resp.status = 429
    THEN [rate_limited |-> TRUE,
          rate_limit_until |-> Some(now + RateLimitCooldownSec),
          prices |-> c_prices, signal |-> None]
    ELSE IF resp.status # 200
    THEN [rate_limited |-> rate_limited, rate_limit_until |-> rate_limit_until,
          prices |-> c_prices, signal |-> None]
    ELSE [rate_limited |-> rate_limited, rate_limit_until |-> rate_limit_until,
          prices |-> resp.prices,
          signal |-> IF "BTC" \in DOMAIN resp.prices /\ "ETH" \in DOMAIN resp.prices
                     THEN Some(SpreadSignal(resp.prices["BTC"], resp.prices["ETH"],
                               SpreadOf(resp.prices["BTC"], resp.prices["ETH"])))
                     ELSE None]

\* what a fetch came to: the legs the response carried and the signal returned
Fetched(source, prices, signal) ==
    Some([source |-> source, prices |-> prices, signal |-> signal])

\* the legs a response carried
Carried(resp) == IF resp.status = 200 THEN resp.prices ELSE EmptyDict

\* get_cached_signal()
CoinGeckoCachedSignal ==
    IF "BTC" \in DOMAIN c_prices /\ "ETH" \in DOMAIN c_prices
    THEN Some(SpreadSignal(c_prices["BTC"], c_prices["ETH"],
                           SpreadOf(c_prices["BTC"], c_prices["ETH"])))
    ELSE None

\* a rate-limit test that never holds the loop back
InRateLimitCooldown_Off(limited, until) == FALSE

\* start_polling: "if self._rate_limited and self._rate_limit_until:" with
\* "remaining > 0"
InRateLimitCooldown(limited, until) ==
    /\ limited
    /\ until # None
    /\ until[1] - now > 0

\* start_polling from "while self._running:" to its next await, reading the
\* rate-limit fields as the step before left them
PollLoopHead(limited, until) ==
    IF ~c_running
    THEN /\ cpc' = "done"
         /\ rpc' = "returned"
         /\ rate_limited' = limited
         /\ rate_limit_until' = until
         /\ UNCHANGED <<fetch_count, c_wake>>
    ELSE IF InRateLimitCooldown(limited, until)
    THEN \* await asyncio.sleep(min(remaining, self.polling_interval)); continue
         /\ cpc' = "rl_sleep"
         /\ c_wake' = now + Min(until[1] - now, cfg.polling_interval_sec)
         /\ rpc' = rpc
         /\ rate_limited' = limited
         /\ rate_limit_until' = until
         /\ UNCHANGED fetch_count
    ELSE \* the rate limit, if any, is cleared; get_current_prices() starts
         /\ rate_limited' = IF limited /\ until # None THEN FALSE ELSE limited
         /\ rate_limit_until' = IF limited /\ until # None THEN None ELSE until
         /\ cpc' = "fetching"
         /\ fetch_count' = 1 - fetch_count
         /\ rpc' = rpc
         /\ UNCHANGED c_wake

\* the loop's "await asyncio.sleep(self.polling_interval)" starts
PollSleep == cpc' = "sleep" /\ c_wake' = now + cfg.polling_interval_sec

\* the response to the loop's fetch arrives; a signal goes to on_update
PollFetched ==
    /\ rpc = "polling"
    /\ cpc = "fetching"
    /\ \E resp \in WireResponses :
          LET r == FetchResult(resp) IN
          /\ rate_limited' = r.rate_limited
          /\ rate_limit_until' = r.rate_limit_until
          /\ c_prices' = r.prices
          /\ last_429' = IF resp.status = 429 THEN Some(now) ELSE last_429
          /\ fetched' = Fetched("coingecko", Carried(resp), r.signal)
          /\ IF r.signal = None
             THEN /\ PollSleep
                  /\ IF resp.status # 200 THEN Failed ELSE UNCHANGED recovery
                  /\ UNCHANGED <<trackerVars, out, prod, after_stop>>
             ELSE /\ out' = r.signal
                  /\ prod' = 1 - prod
                  /\ stopped => after_stop < MaxAfterStop
                  /\ after_stop' = IF stopped THEN after_stop + 1 ELSE after_stop
                  /\ OnPriceUpdate(r.signal[1])
                  /\ IF HandlerRaises THEN Failed ELSE Served
                  /\ IF hpc' = "idle"
                     THEN PollSleep
                     ELSE cpc' = "handler" /\ UNCHANGED c_wake
    /\ UNCHANGED <<fixed, now, runVars, binanceVars, c_running, fetch_count>>

\* the loop's sleep ends and the loop goes round
PollWake ==
    /\ rpc = "polling"
    /\ cpc = "sleep"
    /\ now >= c_wake
    /\ PollLoopHead(rate_limited, rate_limit_until)
    /\ UNCHANGED <<fixed, now, trackerVars, t_running, use_coingecko, stopped, health,
                   binanceVars, c_running, c_prices, last_429, feedVars>>

\* the rate-limit sleep ends: "continue"
PollRateLimitWake ==
    /\ rpc = "polling"
    /\ cpc = "rl_sleep"
    /\ now >= c_wake
    /\ PollLoopHead(rate_limited, rate_limit_until)
    /\ UNCHANGED <<fixed, now, trackerVars, t_running, use_coingecko, stopped, health,
                   binanceVars, c_running, c_prices, last_429, feedVars>>

\* "await on_update(signal)" returns to the loop after an entry alert
PollEntryAlertSent ==
    /\ rpc = "polling"
    /\ cpc = "handler"
    /\ EntryAlertSent
    /\ PollSleep
    /\ UNCHANGED <<fixed, now, runVars, binanceVars, c_running, rate_limited,
                   rate_limit_until, c_prices, fetch_count, last_429, feedVars>>

\* "await on_update(signal)" returns to the loop after a close alert
PollCloseAlertSent ==
    /\ rpc = "polling"
    /\ cpc = "handler"
    /\ CloseAlertSent
    /\ PollSleep
    /\ UNCHANGED <<fixed, now, runVars, binanceVars, c_running, rate_limited,
                   rate_limit_until, c_prices, fetch_count, last_429, feedVars>>

\* CoinGeckoAPI.stop()
CoinGeckoStop == c_running' = FALSE

----------------------------------------------------------------------------
(* src/strategy/pair_trader.py: run() and stop() *)

\* run() up to "await self._check_health()"
RunStart ==
    /\ rpc = "init"
    /\ rpc' = "health"
    /\ t_running' = TRUE
    /\ UNCHANGED <<fixed, now, trackerVars, use_coingecko, stopped, health, binanceVars,
                   coingeckoVars, feedVars>>

\* what a health_check() may meet: the service answers well, answers badly, or
\* cannot be reached (an exception, which every health_check catches)
HealthOutcomes == {"healthy", "unhealthy", "unreachable"}

\* what health_check() returns
Healthy(outcome) == outcome = "healthy"

\* a start-up that gives up when a service is not healthy
AfterHealth_Abort(sinks, venues) ==
    IF (\A i \in DOMAIN sinks : sinks[i]) /\ (\A p \in DOMAIN venues : venues[p])
    THEN "binance_initial"
    ELSE "returned"

\* where run() goes after _check_health, whose results are only logged
AfterHealth(sinks, venues) == "binance_initial"

\* the health checks end: every sink's in turn, then the venues the configuration
\* lists; the Binance REST fetch starts
HealthChecked ==
    /\ rpc = "health"
    /\ \E sinks \in [DOMAIN notifiers -> HealthOutcomes],
          venues \in [platforms \cap PlatformNames -> HealthOutcomes] :
          LET checked == [notifiers |-> [i \in DOMAIN sinks |-> Healthy(sinks[i])],
                          platforms |-> [x \in DOMAIN venues |-> Healthy(venues[x])]]
          IN  /\ health' = Some(checked)
              /\ rpc' = AfterHealth(checked.notifiers, checked.platforms)
    /\ UNCHANGED <<fixed, now, trackerVars, t_running, use_coingecko, stopped,
                   binanceVars, coingeckoVars, feedVars>>

\* a run() that starts the stream whatever the initial fetch returned
UseStream_Always(initial_signal) == TRUE

\* run(): "if initial_signal:"
UseStream(initial_signal) == initial_signal # None

\* binance.get_current_prices() returns.  With a signal start_stream starts:
\* "self._running = True", the delay at its base, the first connect.  Without
\* one the fallback flag is set and coingecko.get_current_prices() starts.
BinanceInitialFetched ==
    /\ rpc = "binance_initial"
    /\ \E answers \in RestAnswers :
          LET r == BinanceRest(answers) IN
          /\ fetched' = Fetched("binance", r.prices, r.signal)
          /\ IF UseStream(r.signal)
             THEN /\ rpc' = "stream"
                  /\ b_running' = TRUE
                  /\ reconnect_delay' = ReconnectDelay
                  /\ bpc' = "connecting"
                  /\ UNCHANGED <<use_coingecko, fetch_count>>
             ELSE /\ rpc' = "cg_initial"
                  /\ use_coingecko' = TRUE
                  /\ fetch_count' = 1 - fetch_count
                  /\ UNCHANGED <<b_running, reconnect_delay, bpc>>
    /\ UNCHANGED <<fixed, now, trackerVars, t_running, stopped, health, b_ws, b_prices,
                   b_other, b_seen, b_bad, b_sub, waits, c_running, rate_limited,
                   rate_limit_until, c_prices, cpc, c_wake, last_429, out, prod,
                   after_stop, recovery>>

\* coingecko.get_current_prices() returns and start_polling starts:
\* "self._running = True", then the loop
CoinGeckoInitialFetched ==
    /\ rpc = "cg_initial"
    /\ \E resp \in WireResponses :
          LET r == FetchResult(resp) IN
          /\ c_prices' = r.prices
          /\ last_429' = IF resp.status = 429 THEN Some(now) ELSE last_429
          /\ fetched' = Fetched("coingecko", Carried(resp), r.signal)
          /\ c_running' = TRUE
          /\ IF InRateLimitCooldown(r.rate_limited, r.rate_limit_until)
             THEN /\ cpc' = "rl_sleep"
                  /\ c_wake' = now + Min(r.rate_limit_until[1] - now,
                                         cfg.polling_interval_sec)
                  /\ rate_limited' = r.rate_limited
                  /\ rate_limit_until' = r.rate_limit_until
                  /\ UNCHANGED fetch_count
             ELSE /\ rate_limited' = IF r.rate_limited /\ r.rate_limit_until # None
                                     THEN FALSE ELSE r.rate_limited
                  /\ rate_limit_until' = IF r.rate_limited /\ r.rate_limit_until # None
                                         THEN None ELSE r.rate_limit_until
                  /\ cpc' = "fetching"
                  /\ fetch_count' = 1 - fetch_count
                  /\ UNCHANGED c_wake
    /\ rpc' = "polling"
    /\ UNCHANGED <<fixed, now, trackerVars, t_running, use_coingecko, stopped, health,
                   binanceVars, out, prod, after_stop, recovery>>

\* stop(), called once while run() is under way
Stop ==
    /\ rpc \notin {"init", "returned"}
    /\ ~stopped
    /\ stopped' = TRUE
    /\ t_running' = FALSE
    /\ IF use_coingecko
       THEN CoinGeckoStop /\ UNCHANGED b_running
       ELSE BinanceStop /\ UNCHANGED c_running
    /\ UNCHANGED <<fixed, now, trackerVars, rpc, use_coingecko, health, b_ws,
                   reconnect_delay, b_prices, b_other, b_seen, b_bad, b_sub, waits, bpc,
                   rate_limited, rate_limit_until, c_prices, fetch_count, cpc, c_wake,
                   last_429, feedVars>>

----------------------------------------------------------------------------
(* Construction *)

\* MonkPairTrader.__init__, as far as the tracker goes
TrackerInit ==
    /\ cfg \in Configs
    /\ now = 0
    /\ current_position = None
    /\ last_signal_time = EmptyDict
    /\ last_spread = None
    /\ hpc = "idle"
    /\ sig = None
    /\ alert = None
    /\ dispatch = None
    /\ fetch_results = None
    /\ upd = 0
    /\ entry_alert_at = EmptyDict
    /\ last_alert = None

\* MonkPairTrader.__init__, BinanceAPI.__init__ and CoinGeckoAPI.__init__
SourceInit ==
    /\ rpc = "init"
    /\ t_running = FALSE
    /\ use_coingecko = FALSE
    /\ stopped = FALSE
    /\ health = None
    /\ b_running = FALSE
    /\ b_ws = "none"
    /\ reconnect_delay = ReconnectDelay
    /\ b_prices = EmptyDict
    /\ bpc = "idle"
    /\ waits = 0
    /\ b_other = 0
    /\ b_seen = {}
    /\ b_bad = 0
    /\ b_sub = FALSE
    /\ c_running = FALSE
    /\ rate_limited = FALSE
    /\ rate_limit_until = None
    /\ c_prices = EmptyDict
    /\ fetch_count = 0
    /\ cpc = "idle"
    /\ c_wake = 0
    /\ last_429 = None
    /\ fetched = None
    /\ out = None
    /\ prod = 0
    /\ recovery = "clean"
    /\ after_stop = 0

\* both channels switched off in config.yaml: alerts go to the log only
Init ==
    /\ TrackerInit
    /\ SourceInit
    /\ notifiers = << >>
    /\ platforms = {}
    /\ probe = None

----------------------------------------------------------------------------
(* The tracker driven directly: its caller hands it one observation at a time *)

\* the clock advances, up to a horizon
Advance(horizon) == \E d \in TickSteps : now + d <= horizon /\ now' = now + d

FeedTick == Advance(MaxFeedTime) /\ UNCHANGED <<fixed, trackerVars, sourceVars>>

\* the caller awaits on_update(signal): no update while one is in flight
FeedObservation ==
    /\ hpc = "idle"
    /\ \E btc \in Legs(BtcPrices, BtcChanges), eth \in Legs(EthPrices, EthChanges) :
          OnPriceUpdate(SpreadSignal(btc, eth, SpreadOf(btc, eth)))
    /\ UNCHANGED <<fixed, now, sourceVars>>

FeedEntryAlertSent == EntryAlertSent /\ UNCHANGED <<fixed, now, sourceVars>>

FeedCloseAlertSent == CloseAlertSent /\ UNCHANGED <<fixed, now, sourceVars>>

TrackerNext == FeedObservation \/ FeedEntryAlertSent \/ FeedCloseAlertSent \/ FeedTick

TrackerSpec == Init /\ [][TrackerNext]_vars

----------------------------------------------------------------------------
(* The tracker with sinks configured, driven directly *)

AlertEthPrices == {195, 200}
AlertEthChanges == {0, 5}

\* any list of sinks and any of the venue settings
AlertInit ==
    /\ TrackerInit
    /\ SourceInit
    /\ notifiers \in NotifierLists
    /\ platforms \in SUBSET PlatformNames
    /\ probe = None

AlertObservation ==
    /\ hpc = "idle"
    /\ \E btc \in Legs(BtcPrices, {0}), eth \in Legs(AlertEthPrices, AlertEthChanges) :
          OnPriceUpdate(SpreadSignal(btc, eth, SpreadOf(btc, eth)))
    /\ UNCHANGED <<fixed, now, sourceVars>>

FeedVenuesFetched == VenuesFetched /\ UNCHANGED <<fixed, now, sourceVars>>

AlertNext ==
    \/ AlertObservation
    \/ FeedVenuesFetched
    \/ FeedEntryAlertSent
    \/ FeedCloseAlertSent
    \/ FeedTick

AlertSpec == AlertInit /\ [][AlertNext]_vars

----------------------------------------------------------------------------
(* The program: run() started by main, stop() by a signal *)

Tick == Advance(MaxTime) /\ UNCHANGED <<fixed, trackerVars, sourceVars>>

Next ==
    \/ RunStart
    \/ HealthChecked
    \/ BinanceInitialFetched
    \/ CoinGeckoInitialFetched
    \/ StreamConnect
    \/ StreamMessage
    \/ StreamClosed
    \/ StreamBackoffDone
    \/ StreamEntryAlertSent
    \/ StreamCloseAlertSent
    \/ PollFetched
    \/ PollWake
    \/ PollRateLimitWake
    \/ PollEntryAlertSent
    \/ PollCloseAlertSent
    \/ Stop
    \/ Tick

Spec == Init /\ [][Next]_vars

----------------------------------------------------------------------------
(* The program with the default strategy, one sink and one venue *)

FullInit ==
    /\ TrackerInit
    /\ cfg = DefaultConfig
    /\ SourceInit
    /\ notifiers = <<TELEGRAM>>
    /\ platforms = {"extended"}
    /\ probe = None

FullNext == Next \/ FeedVenuesFetched

FullSpec == FullInit /\ [][FullNext]_vars

----------------------------------------------------------------------------
(* run() from its start to the start of a feed loop, with sinks and venues *)

\* any list of sinks and any of the venue settings
HealthInit ==
    /\ TrackerInit
    /\ SourceInit
    /\ notifiers \in NotifierLists
    /\ platforms \in SUBSET PlatformNames
    /\ probe = None

HealthNext ==
    \/ RunStart
    \/ HealthChecked
    \/ BinanceInitialFetched
    \/ CoinGeckoInitialFetched

HealthSpec == HealthInit /\ [][HealthNext]_vars

----------------------------------------------------------------------------
(* Position.estimate_pnl applied along a price path and along its mirror *)

\* entry prices, sizes and percent moves (whole percents of the entry price)
ProbeEntryPrices == {100, 200}
ProbeSizes == {500, 1000}
ProbeMoves == {-3, 0, 3, 50}
MaxPathLen == 2

ProbePaths ==
    UNION {[1..n -> ProbeMoves \X ProbeMoves] : n \in 1..MaxPathLen}

\* the price after a move of m percent from entry
Moved(entry, m) == (entry * (100 + m)) \div 100

\* a STRATEGY1 position and a path of (BTC move, ETH move) points, nothing evaluated
ProbeInit ==
    /\ TrackerInit
    /\ SourceInit
    /\ notifiers = << >>
    /\ platforms = {}
    /\ \E eb \in ProbeEntryPrices, ee \in ProbeEntryPrices, size \in ProbeSizes,
          path \in ProbePaths :
          probe = Some([position |-> Position(STRATEGY1, 5, eb, ee, size),
                        path |-> path, at |-> 0, pnl |-> None, mirror_pnl |-> None])

\* the same position in the opposite direction
Opposite(pos) ==
    [pos EXCEPT !.signal_type = IF pos.signal_type = STRATEGY1 THEN STRATEGY2
                                ELSE STRATEGY1]

\* estimate_pnl at the next point of the path, and of the opposite position at
\* the mirrored point (BTC moves as ETH did, ETH as BTC did)
ProbeEstimate ==
    /\ probe # None
    /\ probe[1].at < Len(probe[1].path)
    /\ LET c == probe[1]
           pos == c.position
           m == c.path[c.at + 1]
       IN  probe' = Some([c EXCEPT
               !.at = c.at + 1,
               !.pnl = Some(EstimatePnl(pos,
                           Moved(pos.entry_btc_price, m[1]),
                           Moved(pos.entry_eth_price, m[2]))),
               !.mirror_pnl = Some(EstimatePnl(Opposite(pos),
                           Moved(pos.entry_btc_price, m[2]),
                           Moved(pos.entry_eth_price, m[1])))])
    /\ UNCHANGED <<cfg, notifiers, platforms, now, trackerVars, sourceVars>>

ProbeSpec == ProbeInit /\ [][ProbeEstimate]_vars

----------------------------------------------------------------------------
(* Position.estimate_pnl applied to a position of either direction *)

PnlCurrentPrices == {0, 97, 100, 150, 200, 206}

\* a position of either direction and the current prices, nothing evaluated
PnlInit ==
    /\ TrackerInit
    /\ SourceInit
    /\ notifiers = << >>
    /\ platforms = {}
    /\ \E d \in {STRATEGY1, STRATEGY2}, eb \in ProbeEntryPrices, ee \in ProbeEntryPrices,
          size \in ProbeSizes, cb \in PnlCurrentPrices, ce \in PnlCurrentPrices :
          probe = Some([position |-> Position(d, 5, eb, ee, size),
                        current_btc |-> cb, current_eth |-> ce,
                        pnl |-> None, opposite_pnl |-> None])

\* estimate_pnl of the position and of the opposite position at the same prices
PnlEstimate ==
    /\ probe # None
    /\ probe[1].pnl = None
    /\ LET c == probe[1] IN
       probe' = Some([c EXCEPT
           !.pnl = Some(EstimatePnl(c.position, c.current_btc, c.current_eth)),
           !.opposite_pnl = Some(EstimatePnl(Opposite(c.position),
                                             c.current_btc, c.current_eth))])
    /\ UNCHANGED <<cfg, notifiers, platforms, now, trackerVars, sourceVars>>

PnlSpec == PnlInit /\ [][PnlEstimate]_vars

----------------------------------------------------------------------------
(* CoinGeckoAPI.get_current_prices called again and again *)

\* calls of get_current_prices() that are followed
MaxFetches == 3

\* no call made yet: nothing cached, so no leg has a timestamp
CacheInit ==
    /\ TrackerInit
    /\ SourceInit
    /\ notifiers = << >>
    /\ platforms = {}
    /\ probe = Some([calls |-> 0, resp |-> None, stamps |-> EmptyDict])

\* PriceData.timestamp and the call that built it, of each leg a call leaves
\* cached: "now = datetime.utcnow()" once per response, "timestamp=now" per leg
Stamps(resp, prices) ==
    [x \in DOMAIN prices |->
        IF resp.status = 200 /\ x \in DOMAIN resp.prices
        THEN [timestamp |-> now, call |-> probe[1].calls + 1]
        ELSE probe[1].stamps[x]]

\* one call of get_current_prices(), from "self._fetch_count += 1" to its return
CacheFetch ==
    /\ probe # None
    /\ probe[1].calls < MaxFetches
    /\ \E resp \in WireResponses :
          LET r == FetchResult(resp) IN
          /\ fetch_count' = 1 - fetch_count
          /\ rate_limited' = r.rate_limited
          /\ rate_limit_until' = r.rate_limit_until
          /\ c_prices' = r.prices
          /\ last_429' = IF resp.status = 429 THEN Some(now) ELSE last_429
          /\ fetched' = Fetched("coingecko", Carried(resp), r.signal)
          /\ probe' = Some([calls |-> probe[1].calls + 1, resp |-> Some(resp),
                            stamps |-> Stamps(resp, r.prices)])
    /\ UNCHANGED <<cfg, notifiers, platforms, now, trackerVars, runVars, binanceVars,
                   c_running, cpc, c_wake, out, prod, after_stop, recovery>>

CacheTick ==
    /\ Advance(MaxFeedTime)
    /\ UNCHANGED <<fixed, trackerVars, sourceVars>>

CacheNext == CacheFetch \/ CacheTick

CacheSpec == CacheInit /\ [][CacheNext]_vars

----------------------------------------------------------------------------
(* src/main.py: from the loaded configuration to run() *)

\* what Config.load() may hand to main: the channel switches, the secrets of
\* the environment, the entry threshold and the ceiling (half-percent units)
LoadedSecrets == {None, Some(""), Some("set")}
LoadedThresholds == {-1, 0, 4, 16, 17}
LoadedCeilings == {16}

LoadedConfigs ==
    [telegram_enabled : BOOLEAN, telegram_bot_token : LoadedSecrets,
     telegram_chat_id : LoadedSecrets, discord_enabled : BOOLEAN,
     discord_webhook_url : LoadedSecrets, spread_threshold : LoadedThresholds,
     spread_max : LoadedCeilings]

\* main() has loaded a configuration and is about to validate it
MainInit ==
    /\ TrackerInit
    /\ SourceInit
    /\ notifiers = << >>
    /\ platforms = {}
    /\ \E c \in LoadedConfigs :
          probe = Some([config |-> c, errors |-> None, built |-> None,
                        mpc |-> "loaded"])

\* main(): "if errors:" ... "sys.exit(1)"
Exits(errors) == errors # << >>

\* main() from "errors = config.validate()" to sys.exit(1), to the trader
\* created by "trader = MonkPairTrader(config)", or to the TypeError out of it
MainValidate ==
    /\ probe # None
    /\ probe[1].mpc = "loaded"
    /\ LET errors == Validate(probe[1].config)
           trader == Construct(probe[1].config)
       IN  probe' = Some([probe[1] EXCEPT
                            !.errors = Some(errors),
                            !.built = IF Exits(errors) \/ trader.raised THEN None
                                      ELSE Some(trader.notifiers),
                            !.mpc = IF Exits(errors) THEN "exited"
                                    ELSE IF trader.raised THEN "raised"
                                    ELSE "created"])
    /\ UNCHANGED <<cfg, notifiers, platforms, now, trackerVars, sourceVars>>

\* main(): "await trader.run()"
MainRun ==
    /\ probe # None
    /\ probe[1].mpc = "created"
    /\ RunStart

MainNext == MainValidate \/ MainRun

MainSpec == MainInit /\ [][MainNext]_vars

----------------------------------------------------------------------------
(* Properties of the position tracker *)

\* this step is one invocation of _on_price_update; sig' is the observation handled
Handled == upd' # upd

\* the direction a spread implies
ImpliedDirection(spread) == IF spread >= 0 THEN STRATEGY1 ELSE STRATEGY2

\* direction d never fired, or its last fire is at least the cooldown ago
CooldownElapsed(d) ==
    \/ d \notin DOMAIN last_signal_time
    \/ now - last_signal_time[d] >= cfg.cooldown_sec

\* the entry preconditions of an observation with this spread
EntryConditions(spread) ==
    /\ Abs(spread) >= cfg.spread_threshold
    /\ Abs(spread) <= cfg.spread_max
    /\ CooldownElapsed(ImpliedDirection(spread))

\* this step opened a position and started an entry alert
EntryFired ==
    /\ current_position = None
    /\ current_position' # None
    /\ hpc' = "entry_alert"
    /\ alert' # None
    /\ alert'[1].alert_type = AlertSIGNAL

\* this step started a close alert
CloseFired ==
    /\ hpc' = "close_alert"
    /\ alert' # None
    /\ alert'[1].alert_type = AlertCLOSE

\* this step left position and ledger alone and emitted nothing
NothingFired ==
    /\ current_position' = current_position
    /\ last_signal_time' = last_signal_time
    /\ hpc' = "idle"
    /\ alert' = None

\* the estimated PnL of pos at these prices exists and is at least amount
PnlAtLeast(pos, current_btc, current_eth, amount) ==
    /\ pos.entry_btc_price # 0
    /\ pos.entry_eth_price # 0
    /\ EstimatePnl(pos, current_btc, current_eth)
          >= amount * pos.entry_btc_price * pos.entry_eth_price

\* C1: at most one position is held, and an observation handled while a position
\* is OPEN creates no position, emits no entry alert and leaves the cooldown
\* ledger as it was.
C1_NoEntryWhileOpen ==
    [][(Handled /\ current_position # None) =>
          /\ Len(current_position') <= 1
          /\ current_position' = current_position
          /\ last_signal_time' = last_signal_time
          /\ entry_alert_at' = entry_alert_at
          /\ hpc' # "entry_alert"
          /\ (alert' = None \/ alert'[1].alert_type = AlertCLOSE)]_vars

\* C1 witness: a position is held after an observation that meets every entry
\* condition, and is not the one that opened it, was handled while OPEN.
C1_Witness ==
    /\ current_position # None
    /\ hpc = "idle"
    /\ sig # None
    /\ EntryConditions(sig[1].spread_pct)
    /\ sig[1].spread_pct # current_position[1].entry_spread

\* C2: handled while FLAT, an observation opens a position and emits an entry
\* alert exactly when |spread| >= threshold, |spread| <= max and the implied
\* direction never fired or fired at least the cooldown ago; otherwise the tracker
\* stays FLAT and nothing is emitted.
C2_EntryIff ==
    [][(Handled /\ current_position = None) =>
          /\ EntryFired <=> EntryConditions(sig'[1].spread_pct)
          /\ ~EntryConditions(sig'[1].spread_pct) => NothingFired]_vars

\* C2 witness: under the default thresholds the tracker is FLAT right after an
\* observation whose spread is in range was suppressed by the cooldown.
C2_Witness ==
    /\ cfg = DefaultConfig
    /\ current_position = None
    /\ hpc = "idle"
    /\ sig # None
    /\ Abs(sig[1].spread_pct) >= cfg.spread_threshold
    /\ Abs(sig[1].spread_pct) <= cfg.spread_max
    /\ ~CooldownElapsed(ImpliedDirection(sig[1].spread_pct))

\* C3: an entry alert for a direction is never emitted less than the cooldown
\* after the previous entry alert for that direction.
C3_EntryAlertsCooldownApart ==
    [][\A d \in {STRATEGY1, STRATEGY2} :
          (/\ hpc = "idle"
           /\ hpc' = "entry_alert"
           /\ current_position'[1].signal_type = d
           /\ d \in DOMAIN entry_alert_at)
          => now - entry_alert_at[d] >= cfg.cooldown_sec]_vars

\* C3 witness: an entry alert is in flight for a direction that fired before.
C3_Witness ==
    /\ hpc = "entry_alert"
    /\ current_position[1].signal_type \in DOMAIN last_signal_time
    /\ now - last_signal_time[current_position[1].signal_type] >= cfg.cooldown_sec

\* C4: handled while OPEN, an observation emits a close alert exactly when
\* |spread| <= close threshold and the estimated PnL at its prices is at least the
\* take-profit amount; otherwise the position stays as it was and nothing is
\* emitted.  The close alert sent, the tracker is FLAT.
C4_CloseIff ==
    [][/\ (Handled /\ current_position # None) =>
             LET closes ==
                   /\ Abs(sig'[1].spread_pct) <= cfg.spread_close_threshold
                   /\ PnlAtLeast(current_position[1], sig'[1].btc.price,
                                 sig'[1].eth.price, cfg.take_profit_usd)
             IN  /\ CloseFired <=> closes
                 /\ ~closes => NothingFired
       /\ (hpc = "close_alert" /\ hpc' # "close_alert") => current_position' = None]_vars

\* C4 witness: a close alert is in flight whose PnL is exactly the take-profit.
C4_Witness ==
    /\ hpc = "close_alert"
    /\ alert[1].estimated_pnl
          = Some(cfg.take_profit_usd * PnlDen(current_position[1]))

\* C5: an entry takes STRATEGY1 when spread >= +threshold and STRATEGY2 when
\* spread <= -threshold; |spread| equal to the threshold or to the ceiling enters
\* (cooldown permitting) and |spread| above the ceiling never does.
C5_DirectionAndBounds ==
    [][(Handled /\ current_position = None) =>
          LET spread == sig'[1].spread_pct IN
          /\ EntryFired =>
                /\ spread >= cfg.spread_threshold
                      => current_position'[1].signal_type = STRATEGY1
                /\ spread <= -cfg.spread_threshold
                      => current_position'[1].signal_type = STRATEGY2
                /\ alert'[1].signal.signal_type
                      = Some(current_position'[1].signal_type)
          /\ (/\ Abs(spread) \in {cfg.spread_threshold, cfg.spread_max}
              /\ CooldownElapsed(ImpliedDirection(spread))) => EntryFired
          /\ Abs(spread) > cfg.spread_max => NothingFired]_vars

\* C5 witness: a STRATEGY2 entry at a spread of exactly minus the threshold.
C5_Witness ==
    /\ hpc = "entry_alert"
    /\ current_position[1].signal_type = STRATEGY2
    /\ current_position[1].entry_spread = -cfg.spread_threshold

\* the second observation of the scenario: BTC flat, ETH +0.5%, BTC price as at
\* entry, ETH price 3% above entry
ScenarioSecond(pos, signal) ==
    /\ signal.btc.change_24h_pct = 0
    /\ signal.eth.change_24h_pct = 1
    /\ signal.btc.price = pos.entry_btc_price
    /\ signal.eth.price * 100 = pos.entry_eth_price * 103

\* C6: threshold 2.0, max 8.0, close 1.0, size 1000, take-profit 25, no entry yet:
\* BTC 0% / ETH +2.5% opens STRATEGY1 at the observation's prices; then BTC 0% /
\* ETH +0.5% with BTC unchanged and ETH 3% above entry has a PnL below 25 and
\* leaves the position OPEN with no close alert.
C6_Scenario ==
    [][(Handled /\ cfg = DefaultConfig) =>
          /\ (/\ current_position = None
              /\ last_signal_time = EmptyDict
              /\ sig'[1].btc.change_24h_pct = 0
              /\ sig'[1].eth.change_24h_pct = 5)
             => /\ EntryFired
                /\ current_position' =
                      Some(Position(STRATEGY1, 5, sig'[1].btc.price,
                                    sig'[1].eth.price, 1000))
          /\ (/\ current_position # None
              /\ current_position[1].signal_type = STRATEGY1
              /\ current_position[1].entry_spread = 5
              /\ ScenarioSecond(current_position[1], sig'[1]))
             => /\ Abs(sig'[1].spread_pct) <= cfg.spread_close_threshold
                /\ ~PnlAtLeast(current_position[1], sig'[1].btc.price,
                               sig'[1].eth.price, 25)
                /\ NothingFired]_vars

\* C6 witness: the scenario's position is still held after its second observation.
C6_Witness ==
    /\ cfg = DefaultConfig
    /\ hpc = "idle"
    /\ current_position # None
    /\ current_position[1].signal_type = STRATEGY1
    /\ current_position[1].entry_spread = 5
    /\ sig # None
    /\ ScenarioSecond(current_position[1], sig[1])

\* C8: an observation whose legs have the same 24h change has spread 0 and,
\* handled while FLAT, opens nothing and emits nothing, whatever the threshold.
C8_EqualChangeNoEntry ==
    [][(Handled /\ sig'[1].btc.change_24h_pct = sig'[1].eth.change_24h_pct) =>
          /\ sig'[1].spread_pct = 0
          /\ last_spread' = Some(0)
          /\ current_position = None => NothingFired]_vars

\* C8 witness: both legs at +2.5% were handled before any entry ever fired.
C8_Witness ==
    /\ sig # None
    /\ sig[1].btc.change_24h_pct = 5
    /\ sig[1].eth.change_24h_pct = 5
    /\ current_position = None
    /\ hpc = "idle"
    /\ last_signal_time = EmptyDict

----------------------------------------------------------------------------
(* Properties of estimate_pnl *)

\* C7, as claimed: along any path, the opposite position on the mirrored path has
\* the negation of the STRATEGY1 position's estimated PnL.
C7_MirrorNegates ==
    (probe # None /\ probe[1].at > 0) =>
        probe[1].mirror_pnl[1] = -(probe[1].pnl[1])

\* C7, amended: along any path, the opposite position on the mirrored path has
\* the same estimated PnL as the STRATEGY1 position.
C7_MirrorPreserves ==
    (probe # None /\ probe[1].at > 0) =>
        probe[1].mirror_pnl[1] = probe[1].pnl[1]

\* C7 witness: a second point of a path evaluated, with a gain that is not zero.
C7_Witness ==
    /\ probe # None
    /\ probe[1].at = 2
    /\ probe[1].pnl[1] > 0
    /\ probe[1].position.entry_btc_price # probe[1].position.entry_eth_price

----------------------------------------------------------------------------
(* Properties of the sources and of run() / stop() *)

\* this step starts a CoinGecko fetch
FetchStarted == fetch_count' # fetch_count

\* the rate-limit window of the latest 429 is over
WindowElapsed == last_429 # None /\ now >= last_429[1] + 60

\* this step is start_polling reading its loop condition with the flag set
LoopHeadStep ==
    /\ rpc = "polling"
    /\ cpc \in {"sleep", "rl_sleep"}
    /\ c_running /\ c_running'
    /\ coingeckoVars' # coingeckoVars

\* C9: after a 429 no fetch starts and no observation reaches the consumer until
\* 60 seconds have passed; the first loop iteration after that clears the
\* rate-limit state and starts one fetch; and a fetch answered, the loop sleeps
\* the poll interval before it goes round.
C9_RateLimitWindow ==
    [][/\ ((FetchStarted \/ (Handled /\ rpc = "polling")) /\ last_429 # None)
             => WindowElapsed
       /\ (LoopHeadStep /\ rate_limited /\ WindowElapsed)
             => /\ ~rate_limited'
                /\ rate_limit_until' = None
                /\ FetchStarted
                /\ cpc' = "fetching"
       /\ (LoopHeadStep /\ last_429 # None /\ ~WindowElapsed)
             => /\ rate_limited'
                /\ cpc' = "rl_sleep"
                /\ c_wake' <= last_429[1] + 60
                /\ c_wake' <= now + cfg.polling_interval_sec
       /\ (rpc = "polling" /\ cpc # "sleep" /\ cpc' = "sleep")
             => c_wake' = now + cfg.polling_interval_sec
       /\ (cpc = "sleep" /\ FetchStarted) => now >= c_wake]_vars

\* C9 witness: the loop's fetch is under way, started once the window of an
\* earlier 429 was over and the rate-limit state cleared.
C9_Witness ==
    /\ rpc = "polling"
    /\ cpc = "fetching"
    /\ last_429 # None
    /\ now = last_429[1] + 60
    /\ ~rate_limited
    /\ rate_limit_until = None

\* C10: stop() once called, the loop of the source run() uses has its running
\* flag cleared, so that it ends with the iteration in flight and run() returns.
C10_StopEndsLoop ==
    stopped =>
        /\ rpc = "stream" => ~b_running
        /\ rpc = "polling" => ~c_running

----------------------------------------------------------------------------
(* Properties of the alert dispatch *)

\* this step is _send_alert returning to the check that awaited it
AlertCompleted == hpc # "idle" /\ hpc' = "idle"

\* C15: for every alert each configured sink's send is invoked exactly once,
\* whatever the other sinks' sends come to, and the tracker transition that
\* raised the alert completes: an entry leaves the position held and the
\* cooldown recorded, a close leaves no position.
C15_SinksIsolated ==
    [][AlertCompleted =>
          /\ dispatch' # None
          /\ DOMAIN dispatch'[1].invoked = DOMAIN notifiers
          /\ \A i \in DOMAIN notifiers : dispatch'[1].invoked[i] = 1
          /\ hpc = "entry_alert" =>
                /\ current_position' # None
                /\ current_position'[1].signal_type = sig[1].signal_type[1]
                /\ sig[1].signal_type[1] \in DOMAIN last_signal_time'
                /\ last_signal_time'[sig[1].signal_type[1]] = now
          /\ hpc = "close_alert" => current_position' = None]_vars

\* C15 witness: the first of two sinks raised, the second was still sent the
\* entry alert, and the position is held with its cooldown recorded.
C15_Witness ==
    /\ notifiers = <<TELEGRAM, DISCORD>>
    /\ dispatch # None
    /\ dispatch[1].results = <<"raised", "True">>
    /\ dispatch[1].invoked = <<1, 1>>
    /\ hpc = "idle"
    /\ current_position # None
    /\ current_position[1].signal_type \in DOMAIN last_signal_time

----------------------------------------------------------------------------
(* Properties of the choice of source *)

\* C11: the stream is started exactly when the Binance initial fetch returned an
\* observation, and otherwise the fallback flag is set and CoinGecko is used; the
\* flag never returns to false, a loop once started is never started again, the
\* stream is never started under the fallback, and polling is never started
\* once the stream was chosen.
C11_SourceChoice ==
    [][/\ (rpc = "binance_initial" /\ rpc' # "binance_initial") =>
             /\ fetched' # None
             /\ fetched'[1].source = "binance"
             /\ fetched'[1].signal # None =>
                   rpc' = "stream" /\ bpc' = "connecting" /\ ~use_coingecko'
             /\ fetched'[1].signal = None =>
                   rpc' = "cg_initial" /\ bpc' = "idle" /\ use_coingecko'
       /\ use_coingecko => use_coingecko'
       /\ (bpc = "idle" /\ bpc' # "idle") => rpc = "binance_initial"
       /\ (cpc = "idle" /\ cpc' # "idle") => rpc = "cg_initial" /\ use_coingecko
       /\ bpc # "idle" => bpc' # "idle"
       /\ cpc # "idle" => cpc' # "idle"
       /\ use_coingecko' => bpc' = "idle" /\ rpc' \notin {"binance_initial", "stream"}
       /\ bpc' # "idle" => cpc' = "idle" /\ ~use_coingecko'
                           /\ rpc' \notin {"cg_initial", "polling"}]_vars

\* C11 witness: the initial fetch returned nothing, the fallback is in force and
\* the polling loop has produced an observation while the stream never started.
C11_Witness ==
    /\ use_coingecko
    /\ rpc = "polling"
    /\ bpc = "idle"
    /\ b_ws = "none"
    /\ out # None

----------------------------------------------------------------------------
(* Properties of the observations the sources hand over *)

\* both legs are among the keys of a dict of prices
BothLegs(prices) == "BTC" \in DOMAIN prices /\ "ETH" \in DOMAIN prices

\* C12: the stream hands nothing to the consumer before a ticker of each of
\* BTCUSDT and ETHUSDT has parsed; a ticker for another symbol changes no cached
\* price and causes no emission; and a fetch or a cached-signal read returns no
\* observation when either leg is missing.
C12_BothLegsOrNothing ==
    /\ [][/\ (rpc = "stream" /\ (prod' # prod \/ upd' # upd)) =>
                {"BTCUSDT", "ETHUSDT"} \subseteq b_seen'
          /\ b_other' # b_other =>
                b_prices' = b_prices /\ prod' = prod /\ upd' = upd /\ out' = out]_vars
    /\ [](/\ (fetched # None /\ ~BothLegs(fetched[1].prices)) =>
                fetched[1].signal = None
          /\ ~BothLegs(b_prices) => BinanceCachedSignal = None
          /\ ~BothLegs(c_prices) => CoinGeckoCachedSignal = None)

\* C12 witness: a BTCUSDT ticker has parsed and a ticker for another symbol was
\* read, ETHUSDT is still missing and nothing has been handed over.
C12_Witness ==
    /\ rpc = "stream"
    /\ bpc = "reading"
    /\ b_seen = {"BTCUSDT"}
    /\ b_other = 1
    /\ DOMAIN b_prices = {"BTC"}
    /\ prod = 0
    /\ upd = 0
    /\ fetched # None
    /\ BinanceCachedSignal = None

----------------------------------------------------------------------------
(* Properties of the reconnect loop *)

\* C13: with k waits ended since the delay was last reset, the delay of the next
\* wait is min(5 * 2^k, 60): it starts at 5, doubles after every wait, stays
\* between 5 and 60, and is back at 5 each time the connection is established
\* and the subscription sent.
C13_Backoff ==
    /\ [](bpc # "idle" =>
            /\ reconnect_delay = Min(5 * (2 ^ waits), 60)
            /\ reconnect_delay >= 5
            /\ reconnect_delay <= 60)
    /\ [][/\ (bpc = "connecting" /\ bpc' = "reading") =>
                reconnect_delay' = 5 /\ waits' = 0
          /\ (bpc = "connecting" /\ bpc' = "backoff") =>
                reconnect_delay' = reconnect_delay /\ waits' = waits
          /\ (bpc = "backoff" /\ bpc' # "backoff") =>
                /\ waits' = waits + 1
                /\ reconnect_delay' = Min(2 * reconnect_delay, 60)]_vars

\* C13 witness: after four waits of 5, 10, 20 and 40 seconds without a connection
\* the stream is in its fifth wait, held at 60 seconds.
C13_Witness ==
    /\ rpc = "stream"
    /\ b_running
    /\ bpc = "backoff"
    /\ waits = 4
    /\ reconnect_delay = 60

----------------------------------------------------------------------------
(* Properties of the source loops under failure *)

\* the running flag of the source whose loop run() is in
LoopFlag == IF rpc = "stream" THEN b_running ELSE c_running

\* C14: while its running flag is set a source loop does not end, whatever it
\* meets (a malformed payload, a transport error or closure, a rate-limit
\* response, an exception out of the consumer callback): after a failure it is
\* at a point from which it goes on, and it returns only once stop() has been
\* called and the flag is cleared.
C14_LoopsSurviveFailures ==
    [][/\ (rpc = "stream" /\ b_running) =>
             /\ rpc' = "stream"
             /\ bpc' \in {"connecting", "reading", "handler", "backoff"}
       /\ (rpc = "polling" /\ c_running) =>
             /\ rpc' = "polling"
             /\ cpc' \in {"fetching", "handler", "sleep", "rl_sleep"}
       /\ (rpc \in {"stream", "polling"} /\ LoopFlag /\ recovery' = "failed"
             /\ HandlerRaises /\ upd' # upd) =>
             \* the callback raised: the observation was handed over all the same
             last_spread' = Some(out'[1].spread_pct)
       /\ (rpc \in {"stream", "polling"} /\ rpc' = "returned") =>
             stopped /\ ~LoopFlag]_vars

\* C14 witness: the stream met a failure with its flag set and has since handed
\* an observation to the consumer.
C14_Witness ==
    /\ rpc = "stream"
    /\ b_running
    /\ ~stopped
    /\ bpc = "reading"
    /\ recovery = "served"
    /\ out # None

\* the same for the polling loop after a rate-limit response
C14_PollingRecovered ==
    /\ rpc = "polling"
    /\ c_running
    /\ last_429 # None
    /\ recovery = "served"

\* the callback has raised in the stream, which is now waiting to reconnect
C14_CallbackRaised ==
    /\ rpc = "stream"
    /\ b_running
    /\ bpc = "backoff"
    /\ current_position # None
    /\ PnlRaises(current_position[1])
    /\ last_spread # Some(current_position[1].entry_spread)

----------------------------------------------------------------------------
(* Properties of the routing of observations *)

\* C16: every observation a source loop produces is passed to _on_price_update
\* in the step that produces it, once, so that none is dropped, repeated or
\* overtaken; and _last_spread is the spread of the observation handled last.
C16_EveryObservationHandled ==
    /\ [][/\ prod' # prod <=> upd' # upd
          /\ prod' # prod =>
                /\ rpc \in {"stream", "polling"}
                /\ out' # None
                /\ sig' # None
                /\ sig'[1].btc = out'[1].btc
                /\ sig'[1].eth = out'[1].eth
                /\ sig'[1].spread_pct = out'[1].spread_pct
                /\ last_spread' = Some(out'[1].spread_pct)
          /\ prod' = prod =>
                /\ out' = out
                /\ last_spread' = last_spread
                /\ sig' = sig]_vars
    /\ [](/\ prod = upd
          /\ out = None => (sig = None /\ last_spread = None)
          /\ out # None => last_spread = Some(out[1].spread_pct))

\* C16 witness: with a position held the stream produced a further observation
\* of another spread, and it was handled.
C16_Witness ==
    /\ rpc = "stream"
    /\ current_position # None
    /\ out # None
    /\ out[1].spread_pct # current_position[1].entry_spread
    /\ sig # None
    /\ sig[1].spread_pct = out[1].spread_pct
    /\ last_spread = Some(out[1].spread_pct)
    /\ hpc = "idle"

----------------------------------------------------------------------------
(* Properties of the status snapshot *)

\* C17: in every state the snapshot agrees with the tracker: has_position holds
\* exactly when a position is held, the summary is present exactly then and
\* carries the held position's type and entry spread, last_spread is the spread
\* of the observation handled last (absent before the first), and running holds
\* from the start of run() until stop() is called.
C17_StatusConsistent ==
    /\ Status.has_position <=> current_position # None
    /\ Status.position # None <=> Status.has_position
    /\ current_position # None =>
          /\ Status.position # None
          /\ Status.position[1].type = current_position[1].signal_type
          /\ Status.position[1].entry_spread = current_position[1].entry_spread
    /\ Status.last_spread = IF sig = None THEN None ELSE Some(sig[1].spread_pct)
    /\ Status.running <=> (rpc # "init" /\ ~stopped)

\* C17 witness: a position was opened and closed, run() is still under way and
\* the snapshot shows no position, the last spread and running.
C17_Witness ==
    /\ rpc \in {"stream", "polling"}
    /\ ~stopped
    /\ DOMAIN last_signal_time # {}
    /\ current_position = None
    /\ ~Status.has_position
    /\ Status.position = None
    /\ Status.last_spread # None
    /\ Status.running

----------------------------------------------------------------------------
(* Properties of the start-up *)

\* C18: validation reports an error whenever an enabled channel lacks a
\* credential (Telegram token or chat id, Discord webhook URL), whenever the
\* entry threshold is not positive and whenever it is not below the ceiling;
\* any error makes main exit without creating the trader, so run() is entered
\* only when validation returned no error.
C18_ValidationGatesRun ==
    (probe # None /\ probe[1].errors # None) =>
        LET c == probe[1].config
            errors == probe[1].errors[1]
        IN  /\ (c.telegram_enabled /\ Lacking(c.telegram_bot_token)) => errors # << >>
            /\ (c.telegram_enabled /\ Lacking(c.telegram_chat_id)) => errors # << >>
            /\ (c.discord_enabled /\ Lacking(c.discord_webhook_url)) => errors # << >>
            /\ c.spread_threshold <= 0 => errors # << >>
            /\ c.spread_threshold >= c.spread_max => errors # << >>
            /\ errors # << >> => (probe[1].mpc = "exited" /\ rpc = "init" /\ ~t_running)
            /\ rpc # "init" => errors = << >>

\* C18 witness: Telegram is enabled with its token but no chat id, everything
\* else is in order, and main has exited on that one error.
C18_Witness ==
    /\ probe # None
    /\ probe[1].mpc = "exited"
    /\ probe[1].config.telegram_enabled
    /\ probe[1].config.telegram_bot_token = Some("set")
    /\ probe[1].config.telegram_chat_id = None
    /\ ~probe[1].config.discord_enabled
    /\ probe[1].config.spread_threshold = 4
    /\ Len(probe[1].errors[1]) = 1
    /\ rpc = "init"

----------------------------------------------------------------------------
(* Properties of estimate_pnl for the two directions *)

\* C19: with each percent change taken against the entry price, estimate_pnl is
\* size * (BTC change - ETH change) for STRATEGY1 and size * (ETH change - BTC
\* change) for STRATEGY2, so that at the same entry prices, size and current
\* prices the estimates of the two directions sum to zero.  (Both sides are
\* multiplied by the product of the entry prices.)
C19_PnlFormula ==
    (probe # None /\ probe[1].pnl # None) =>
        LET c == probe[1]
            pos == c.position
            btc_change == (c.current_btc - pos.entry_btc_price) * pos.entry_eth_price
            eth_change == (c.current_eth - pos.entry_eth_price) * pos.entry_btc_price
        IN  /\ pos.signal_type = STRATEGY1 =>
                  c.pnl[1] = pos.position_size_usd * (btc_change - eth_change)
            /\ pos.signal_type = STRATEGY2 =>
                  c.pnl[1] = pos.position_size_usd * (eth_change - btc_change)
            /\ c.pnl[1] + c.opposite_pnl[1] = 0

\* C19 witness: a STRATEGY1 position with different entry prices evaluated at a
\* gain, the opposite direction at the matching loss.
C19_Witness ==
    /\ probe # None
    /\ probe[1].pnl # None
    /\ probe[1].position.signal_type = STRATEGY1
    /\ probe[1].position.entry_btc_price # probe[1].position.entry_eth_price
    /\ probe[1].current_btc = 206
    /\ probe[1].current_eth = 97
    /\ probe[1].pnl[1] > 0
    /\ probe[1].opposite_pnl[1] < 0

----------------------------------------------------------------------------
(* Properties of the spread the sources compute *)

\* the spread of an observation is its ETH change less its BTC change
SpreadRight(signal) ==
    signal.spread_pct = signal.eth.change_24h_pct - signal.btc.change_24h_pct

\* an observation carries the two legs of a dict of prices
Carries(signal, prices) ==
    /\ BothLegs(prices)
    /\ signal.btc = prices["BTC"]
    /\ signal.eth = prices["ETH"]

\* C20: on every source path (ticker handling, the Binance REST fetch, the
\* CoinGecko fetch, either cached-signal read) an observation's spread is its
\* ETH 24h change less its BTC 24h change, and its legs are the two the path
\* held when it built the observation.
C20_SpreadFromOwnLegs ==
    /\ [](/\ out # None => SpreadRight(out[1])
          /\ sig # None => SpreadRight(sig[1])
          /\ (fetched # None /\ fetched[1].signal # None) =>
                /\ SpreadRight(fetched[1].signal[1])
                /\ Carries(fetched[1].signal[1], fetched[1].prices)
          /\ BinanceCachedSignal # None =>
                /\ SpreadRight(BinanceCachedSignal[1])
                /\ Carries(BinanceCachedSignal[1], b_prices)
          /\ CoinGeckoCachedSignal # None =>
                /\ SpreadRight(CoinGeckoCachedSignal[1])
                /\ Carries(CoinGeckoCachedSignal[1], c_prices))
    /\ [][/\ (rpc = "stream" /\ prod' # prod) => Carries(out'[1], b_prices')
          /\ (rpc = "polling" /\ prod' # prod) =>
                /\ Carries(out'[1], c_prices')
                /\ fetched'[1].signal = out']_vars

\* C20 witness: the REST fetch returned a spread of 2.5 points from changes of 0
\* and 2.5, and the stream then produced a spread of 0 from two changes of 2.5,
\* which the cached-signal read returns too.
C20_Witness ==
    /\ rpc = "stream"
    /\ fetched # None
    /\ fetched[1].signal # None
    /\ fetched[1].signal[1].spread_pct = 5
    /\ out # None
    /\ out[1].btc.change_24h_pct = 5
    /\ out[1].eth.change_24h_pct = 5
    /\ out[1].spread_pct = 0
    /\ BinanceCachedSignal # None
    /\ BinanceCachedSignal[1].spread_pct = 0

----------------------------------------------------------------------------
(* Properties of the stream's handling of malformed messages *)

\* C21: a malformed message read on the stream (text that is not JSON, JSON that
\* is not a ticker object, a tracked-symbol ticker with a field missing or not
\* parsable) is skipped as one record: the cached prices stay as they were,
\* nothing is handed to the consumer, the connection stays open, no reconnect
\* wait is entered, and the stream is back at reading the same connection.
C21_MalformedSkipped ==
    [][b_bad' # b_bad =>
          /\ b_prices' = b_prices
          /\ out' = out
          /\ prod' = prod
          /\ upd' = upd
          /\ b_ws = "open"
          /\ b_ws' = "open"
          /\ bpc' = "reading"
          /\ rpc' = "stream"
          /\ waits' = waits
          /\ reconnect_delay' = reconnect_delay]_vars

----------------------------------------------------------------------------
(* Properties of the CoinGecko price cache *)

\* C22: the pull source's cache is replaced only as a whole, by a fetch that got
\* a 200 response and parsed it: it then holds exactly the legs of that response;
\* the cached BTC and ETH entries, when both are there, come from the same
\* response and carry the same timestamp; and a fetch that is rate-limited,
\* gets another status or fails leaves the cache exactly as it was.
C22_CacheReplacedWhole ==
    /\ [](probe # None =>
            /\ DOMAIN probe[1].stamps = DOMAIN c_prices
            /\ BothLegs(c_prices) =>
                  /\ probe[1].stamps["BTC"].call = probe[1].stamps["ETH"].call
                  /\ probe[1].stamps["BTC"].timestamp
                        = probe[1].stamps["ETH"].timestamp)
    /\ [][(probe # None /\ probe' # probe) =>
             LET resp == probe'[1].resp[1] IN
             /\ resp.status = 200 =>
                   /\ c_prices' = resp.prices
                   /\ \A x \in DOMAIN c_prices' :
                         probe'[1].stamps[x] = [timestamp |-> now,
                                                call |-> probe'[1].calls]
             /\ resp.status # 200 =>
                   /\ c_prices' = c_prices
                   /\ probe'[1].stamps = probe[1].stamps]_vars

\* C22 witness: a response with both legs was cached, a later one with BTC alone
\* replaced it, and a rate-limit response after that left the BTC entry there.
C22_Witness ==
    /\ probe # None
    /\ probe[1].calls = 3
    /\ probe[1].resp[1].status = 429
    /\ DOMAIN c_prices = {"BTC"}
    /\ probe[1].stamps["BTC"].call = 2
    /\ probe[1].stamps["BTC"].timestamp = 30
    /\ now = 60

----------------------------------------------------------------------------
(* Properties of what is handed over after stop() *)

\* C23: once stop() has been called, the source run() uses hands at most one
\* further observation to the tracker (the one of the iteration in flight), be
\* it the stream or the polling loop.
C23_AtMostOneAfterStop == stopped => after_stop <= 1

----------------------------------------------------------------------------
(* Properties of the order in which observations are handled *)

\* C24: observations are handled one at a time: while a handler is suspended in
\* the dispatch of its alert no other observation is handed to the tracker, the
\* source loop stays at its await, and position and cooldown ledger are as the
\* handler read them until it applies its own transition.
C24_HandlingSequential ==
    /\ [][hpc # "idle" =>
             /\ upd' = upd
             /\ prod' = prod
             /\ sig' = sig
             /\ last_spread' = last_spread
             /\ hpc' \in {hpc, "idle"}
             /\ hpc' = hpc =>
                   /\ current_position' = current_position
                   /\ last_signal_time' = last_signal_time
                   /\ alert' = alert]_vars
    /\ [](hpc # "idle" =>
            /\ alert # None
            /\ rpc \in {"stream", "polling"}
            /\ rpc = "stream" => bpc = "handler"
            /\ rpc = "polling" => cpc = "handler")

\* C24 witness: the stream's handler is suspended in a close alert, a tick of
\* the clock after it read the position it is about to clear.
C24_Witness ==
    /\ rpc = "stream"
    /\ bpc = "handler"
    /\ hpc = "close_alert"
    /\ current_position # None
    /\ alert # None
    /\ alert[1].position = current_position
    /\ now > 0

----------------------------------------------------------------------------
(* Properties of the venue fetches of an alert *)

\* C25: for every alert, prices are requested only from the venues the
\* configuration lists; the gather over the venue fetches has returned before
\* any sink's send starts; and whatever the fetches came to (prices, nothing, a
\* raise) the alert can go on to the sinks and is then sent to each of them.
C25_VenuesBeforeSinks ==
    /\ [](/\ fetch_results # None =>
                /\ DOMAIN fetch_results[1] \subseteq platforms
                /\ DOMAIN fetch_results[1] = platforms \cap PlatformNames
          /\ (hpc # "idle" /\ (platforms \cap PlatformNames = {} \/ fetch_results # None))
                => ENABLED (FeedEntryAlertSent \/ FeedCloseAlertSent))
    /\ [][/\ AlertCompleted =>
                /\ platforms \cap PlatformNames = {} \/ fetch_results # None
                /\ fetch_results' = fetch_results
                /\ dispatch = None
                /\ dispatch' # None
                /\ \A i \in DOMAIN notifiers : dispatch'[1].invoked[i] = 1
          /\ (fetch_results = None /\ fetch_results' # None) =>
                /\ hpc # "idle"
                /\ hpc' = hpc
                /\ alert' = alert
                /\ dispatch = None
                /\ dispatch' = None]_vars

\* C25 witness: with both venues and both sinks configured, one venue fetch
\* raised and the other returned nothing, and the entry alert still went to
\* both sinks.
C25_Witness ==
    /\ platforms = {"variational", "extended"}
    /\ notifiers = <<TELEGRAM, DISCORD>>
    /\ fetch_results # None
    /\ fetch_results[1]["variational"] = "raised"
    /\ fetch_results[1]["extended"] = "empty"
    /\ hpc = "idle"
    /\ dispatch # None
    /\ dispatch[1].invoked = <<1, 1>>
    /\ current_position # None
    /\ current_position[1].signal_type \in DOMAIN last_signal_time

----------------------------------------------------------------------------
(* Properties of the health checks *)

\* C26: the health checks of every configured sink and of every listed venue
\* have ended before the first source fetch is made, and whatever they came to
\* (healthy, unhealthy, unreachable) run() goes on to the initial fetch and from
\* there to one of the feed loops.
C26_HealthNeverBlocks ==
    /\ [](/\ rpc \in {"binance_initial", "cg_initial", "stream", "polling"} =>
                /\ health # None
                /\ DOMAIN health[1].notifiers = DOMAIN notifiers
                /\ DOMAIN health[1].platforms = platforms \cap PlatformNames
          /\ health = None => (fetched = None /\ fetch_count = 0)
          /\ rpc # "returned"
          /\ rpc = "health" => ENABLED HealthChecked
          /\ rpc = "binance_initial" => ENABLED BinanceInitialFetched
          /\ rpc = "cg_initial" => ENABLED CoinGeckoInitialFetched)
    /\ [][/\ (rpc = "health" /\ rpc' # "health") =>
                rpc' = "binance_initial" /\ fetched' = None
          /\ (rpc = "binance_initial" /\ rpc' # "binance_initial") =>
                rpc' \in {"stream", "cg_initial"}
          /\ (rpc = "cg_initial" /\ rpc' # "cg_initial") => rpc' = "polling"]_vars

\* C26 witness: both sinks and both venues failed their health checks and the
\* stream has been started all the same.
C26_Witness ==
    /\ notifiers = <<TELEGRAM, DISCORD>>
    /\ platforms = {"variational", "extended"}
    /\ health # None
    /\ health[1].notifiers = <<FALSE, FALSE>>
    /\ ~health[1].platforms["variational"]
    /\ ~health[1].platforms["extended"]
    /\ rpc = "stream"
    /\ bpc = "connecting"
    /\ fetched # None

----------------------------------------------------------------------------
(* Properties of the order of an entry and of a close *)

\* C28: an entry creates the position (direction, entry spread and entry prices
\* from the observation that triggered it, size from the configuration), then
\* emits one entry alert whose signal type is the position's direction, and
\* only then records the cooldown time of that direction, which is never
\* earlier than the position's entry time; and a position's fields stay as they
\* are for as long as it is held.
C28_EntryOrder ==
    /\ [][/\ (Handled /\ EntryFired) =>
                LET d == current_position'[1].signal_type IN
                /\ d \in {STRATEGY1, STRATEGY2}
                /\ current_position' =
                      Some(Position(d, sig'[1].spread_pct, sig'[1].btc.price,
                                    sig'[1].eth.price, cfg.position_size_usd))
                /\ sig'[1].signal_type = Some(d)
                /\ alert' = Some(AlertPayload(sig'[1], AlertSIGNAL, None, None))
                /\ last_signal_time' = last_signal_time
                /\ entry_alert_at'[d] = now
          /\ (hpc = "entry_alert" /\ hpc' = "entry_alert") =>
                /\ alert' = alert
                /\ last_signal_time' = last_signal_time
          /\ (hpc = "entry_alert" /\ hpc' # "entry_alert") =>
                LET d == current_position[1].signal_type IN
                /\ hpc' = "idle"
                /\ alert' = None
                /\ last_signal_time' = DictSet(last_signal_time, d, now)
                /\ now >= entry_alert_at[d]
          /\ last_signal_time' # last_signal_time => hpc = "entry_alert"
          /\ (current_position # None /\ current_position' # None) =>
                current_position' = current_position]_vars
    /\ [](hpc = "idle" =>
            \A d \in DOMAIN last_signal_time :
                /\ d \in DOMAIN entry_alert_at
                /\ last_signal_time[d] >= entry_alert_at[d])

\* C28 witness: a STRATEGY2 position is held whose cooldown was recorded a tick
\* of the clock after its entry.
C28_Witness ==
    /\ hpc = "idle"
    /\ current_position # None
    /\ current_position[1].signal_type = STRATEGY2
    /\ STRATEGY2 \in DOMAIN last_signal_time
    /\ last_signal_time[STRATEGY2] > entry_alert_at[STRATEGY2]
    /\ now > last_signal_time[STRATEGY2]

----------------------------------------------------------------------------
(* Properties of the tracker under failures of the sources and of the dispatch *)

\* this step is a failure event of a source: the stream's connection ended, the
\* stream entered or left a reconnect wait, a message read was malformed, a
\* rate-limit response arrived, or the poll entered or left its cooldown sleep
SourceFailureStep ==
    \/ b_ws = "open" /\ b_ws' = "closed"
    \/ bpc # "backoff" /\ bpc' = "backoff"
    \/ bpc = "backoff" /\ bpc' # "backoff"
    \/ b_bad' # b_bad
    \/ last_429' # last_429
    \/ cpc # "rl_sleep" /\ cpc' = "rl_sleep"
    \/ cpc = "rl_sleep" /\ cpc' # "rl_sleep"

\* this step is the return of an alert's venue fetches, one of them without prices
VenueFailureStep ==
    /\ fetch_results = None
    /\ fetch_results' # None
    /\ \E p \in DOMAIN fetch_results'[1] : fetch_results'[1][p] # "prices"

\* C27: no failure event of a source (connection closure or error, reconnect
\* wait, malformed message, rate-limit response, rate-limit cooldown) and no
\* failed venue fetch changes the held position or the cooldown ledger; the
\* step that ends an alert changes them in the same way whatever the sinks'
\* sends came to (an entry records its cooldown, a close clears the position);
\* and every change of either is the start of an entry or the end of an entry
\* or close alert.
C27_FailuresLeaveTracker ==
    [][/\ (SourceFailureStep \/ VenueFailureStep) =>
             /\ current_position' = current_position
             /\ last_signal_time' = last_signal_time
       /\ (AlertCompleted /\ hpc = "entry_alert") =>
             /\ current_position' = current_position
             /\ last_signal_time' =
                   DictSet(last_signal_time, current_position[1].signal_type, now)
       /\ (AlertCompleted /\ hpc = "close_alert") =>
             /\ current_position' = None
             /\ last_signal_time' = last_signal_time
       /\ (current_position' # current_position \/ last_signal_time' # last_signal_time) =>
             \/ Handled /\ EntryFired /\ last_signal_time' = last_signal_time
             \/ AlertCompleted]_vars

\* C27 witness: a close alert whose venue fetch raised and whose send raised has
\* cleared the position, the ledger still holds the entry's cooldown, and the
\* stream that delivered it has since lost its connection and waits to reconnect.
C27_Witness ==
    /\ rpc = "stream"
    /\ bpc = "backoff"
    /\ b_ws = "closed"
    /\ hpc = "idle"
    /\ current_position = None
    /\ DOMAIN last_signal_time # {}
    /\ fetch_results = Some([p \in {"extended"} |-> "raised"])
    /\ dispatch # None
    /\ dispatch[1].results = <<"raised">>

\* a second C27 case: the position is held while the poll sleeps off a rate limit
C27_WitnessRateLimit ==
    /\ rpc = "polling"
    /\ cpc = "rl_sleep"
    /\ hpc = "idle"
    /\ current_position # None
    /\ dispatch # None
    /\ dispatch[1].results = <<"False">>

\* C29: a close emits one close alert that carries the held position, which is
\* the one the most recent entry opened, and the PnL estimated from the closing
\* observation's prices; the position is cleared only when that alert has gone
\* out; after that the tracker holds no position and reports none; and neither
\* step of the close changes the cooldown ledger.
C29_CloseOrder ==
    /\ [][/\ (Handled /\ CloseFired) =>
                /\ current_position # None
                /\ current_position' = current_position
                /\ sig'[1].signal_type = Some(CLOSE)
                /\ alert' = Some(AlertPayload(sig'[1], AlertCLOSE, current_position,
                      Some(EstimatePnl(current_position[1], sig'[1].btc.price,
                                       sig'[1].eth.price))))
                /\ last_signal_time' = last_signal_time
          /\ (hpc = "close_alert" /\ hpc' = "close_alert") =>
                /\ alert' = alert
                /\ current_position' = current_position
                /\ last_signal_time' = last_signal_time
          /\ (hpc = "close_alert" /\ hpc' # "close_alert") =>
                /\ hpc' = "idle"
                /\ alert' = None
                /\ current_position' = None
                /\ ~Status'.has_position
                /\ Status'.position = None
                /\ last_signal_time' = last_signal_time
          /\ (current_position # None /\ current_position' # current_position) =>
                hpc = "close_alert"
          /\ (current_position = None /\ current_position' # None) =>
                /\ EntryFired
                /\ entry_alert_at'[current_position'[1].signal_type] = now]_vars
    /\ [](/\ hpc = "close_alert" =>
                /\ alert # None
                /\ alert[1].alert_type = AlertCLOSE
                /\ alert[1].position = current_position
                /\ current_position # None
          /\ current_position # None =>
                LET d == current_position[1].signal_type IN
                /\ d \in DOMAIN entry_alert_at
                /\ \A e \in DOMAIN entry_alert_at : entry_alert_at[e] <= entry_alert_at[d])

\* C29 witness: a STRATEGY2 position has been closed: the handler is back, the
\* last observation is the closing one, no position is held and the ledger
\* holds the cooldown of the entry.
C29_Witness ==
    /\ hpc = "idle"
    /\ current_position = None
    /\ sig # None
    /\ sig[1].signal_type = Some(CLOSE)
    /\ DOMAIN last_signal_time = {STRATEGY2}

\* C30: an observation whose |spread| is strictly above the close threshold
\* leaves a held position as it is and emits no alert, however long the
\* position has been held and whatever its estimated PnL is; and the passing of
\* time alone changes neither the position nor what the handler is doing.
C30_NoTimeBasedClose ==
    [][/\ (/\ Handled
           /\ current_position # None
           /\ Abs(sig'[1].spread_pct) > cfg.spread_close_threshold) =>
             /\ current_position' = current_position
             /\ last_signal_time' = last_signal_time
             /\ hpc' = "idle"
             /\ alert' = None
       /\ now' # now =>
             /\ current_position' = current_position
             /\ last_signal_time' = last_signal_time
             /\ hpc' = hpc
             /\ alert' = alert]_vars

\* C30 witness: a position entered at time 0 is still held at the horizon, after
\* an observation at which its estimated PnL met the take-profit amount while
\* |spread| was above the close threshold.
C30_Witness ==
    /\ hpc = "idle"
    /\ current_position # None
    /\ entry_alert_at[current_position[1].signal_type] = 0
    /\ now = MaxFeedTime
    /\ sig # None
    /\ Abs(sig[1].spread_pct) > cfg.spread_close_threshold
    /\ ~PnlRaises(current_position[1])
    /\ Profitable(current_position[1], sig[1])

----------------------------------------------------------------------------
(* Properties of the ceiling, the ledger and the alternation of alerts *)

\* C31: while a position is held, an observation whose |spread| is above the
\* ceiling goes through the close check like any other: a close alert is
\* started exactly when the spread is within the close threshold and the
\* estimated PnL meets the take-profit amount, and otherwise nothing changes;
\* it never starts an entry alert and never replaces the position.
C31_CeilingNotConsultedWhileOpen ==
    [][(/\ Handled
        /\ current_position # None
        /\ AboveMax(sig'[1])) =>
          /\ ~EntryFired
          /\ current_position' = current_position
          /\ last_signal_time' = last_signal_time
          /\ alert' # None => alert'[1].alert_type = AlertCLOSE
          /\ IF /\ ~PnlRaises(current_position[1])
                /\ SpreadNormalized(sig'[1])
                /\ Profitable(current_position[1], sig'[1])
             THEN CloseFired
             ELSE NothingFired]_vars

\* C31 witness: a position is held and the observation handled last had a
\* spread above the ceiling, which no entry observation has.
C31_Witness ==
    /\ hpc = "idle"
    /\ current_position # None
    /\ sig # None
    /\ AboveMax(sig[1])
    /\ last_spread = Some(sig[1].spread_pct)
    /\ alert = None

\* C32: the classification an observation gets when it is created is the one
\* the configured entry threshold gives: STRATEGY1 iff spread >= threshold,
\* STRATEGY2 iff spread <= -threshold, and none otherwise.  It is read here on
\* the handler paths that leave the observation as it was created: the close
\* check that does not close, and the entry check's returns below the threshold
\* and above the ceiling.
C32_ClassifiedByConfiguredThreshold ==
    [][(/\ Handled
        /\ ~CloseFired
        /\ \/ current_position # None
           \/ BelowThreshold(sig'[1])
           \/ AboveMax(sig'[1])) =>
          sig'[1].signal_type = EntrySignalType(sig'[1])]_vars

\* C33: the cooldown ledger only grows: no step removes a direction from it or
\* lowers a direction's time, and the only step that changes it is the end of
\* an entry alert, which writes the current time for the direction of the
\* position just opened and leaves the other direction's entry alone; a close,
\* a reconnect and the change to the fallback source leave it as it is.
C33_LedgerAppendOnly ==
    [][/\ DOMAIN last_signal_time \subseteq DOMAIN last_signal_time'
       /\ \A d \in DOMAIN last_signal_time : last_signal_time'[d] >= last_signal_time[d]
       /\ last_signal_time' # last_signal_time =>
             /\ hpc = "entry_alert"
             /\ hpc' = "idle"
             /\ current_position # None
             /\ last_signal_time' =
                   DictSet(last_signal_time, current_position[1].signal_type, now)
       /\ (\/ hpc = "close_alert"
           \/ bpc' # bpc /\ "backoff" \in {bpc, bpc'}
           \/ use_coingecko' # use_coingecko) =>
             last_signal_time' = last_signal_time]_vars

\* C33 witness: an entry was recorded, its position has been closed, and the
\* stream has since lost its connection and waits to reconnect: the ledger
\* still holds the entry's time.
C33_Witness ==
    /\ rpc = "stream"
    /\ bpc = "backoff"
    /\ hpc = "idle"
    /\ current_position = None
    /\ DOMAIN last_signal_time # {}
    /\ \A d \in DOMAIN last_signal_time : last_signal_time[d] < now

\* C34: the cooldown is kept per direction: with no position held, an
\* observation that qualifies for an entry of direction d (|spread| from the
\* entry threshold up to the ceiling) opens a position of direction d whenever
\* d itself never fired or fired at least the cooldown ago, whatever the ledger
\* holds for the opposite direction.
C34_CooldownPerDirection ==
    [][\A d \in {STRATEGY1, STRATEGY2} :
          (/\ Handled
           /\ current_position = None
           /\ ~BelowThreshold(sig'[1])
           /\ ~AboveMax(sig'[1])
           /\ EntrySignalType(sig'[1]) = Some(d)
           /\ CooldownElapsed(d)) =>
             /\ EntryFired
             /\ current_position'[1].signal_type = d]_vars

\* C34 witness: a STRATEGY1 position is held that was opened inside the
\* cooldown window of a STRATEGY2 entry recorded before it.
C34_Witness ==
    /\ current_position # None
    /\ current_position[1].signal_type = STRATEGY1
    /\ STRATEGY2 \in DOMAIN last_signal_time
    /\ entry_alert_at[STRATEGY1] >= last_signal_time[STRATEGY2]
    /\ entry_alert_at[STRATEGY1] - last_signal_time[STRATEGY2] < cfg.cooldown_sec

----------------------------------------------------------------------------
(* Properties of the stream's subscription *)

\* this step read a message off the stream's connection
MessageRead ==
    /\ rpc = "stream"
    /\ bpc = "reading"
    /\ \/ b_other' # b_other
       \/ b_seen' # b_seen
       \/ b_bad' # b_bad
       \/ b_prices' # b_prices
       \/ prod' # prod

\* C35: every connection the stream makes, the first one and each one after a
\* reconnect wait, has had the subscription request sent on it by the time it is
\* open for reading: a message is read only from an open connection on which
\* the request went out.
C35_SubscribedBeforeReading ==
    /\ [](/\ b_ws = "open" => b_sub
          /\ (rpc = "stream" /\ bpc \in {"reading", "handler"}) =>
                b_ws = "open" /\ b_sub)
    /\ [][/\ (b_ws # "open" /\ b_ws' = "open") =>
                /\ bpc = "connecting"
                /\ bpc' = "reading"
                /\ b_sub'
          /\ MessageRead => b_ws = "open" /\ b_sub]_vars

\* C35 witness: the stream lost a connection or met a bad message, and has since
\* handed over an observation read from an open, subscribed connection.
C35_Witness ==
    /\ rpc = "stream"
    /\ bpc = "reading"
    /\ b_ws = "open"
    /\ b_sub
    /\ recovery = "served"
    /\ b_seen = {"BTCUSDT", "ETHUSDT"}

----------------------------------------------------------------------------
(* Properties of the tracker at shutdown *)

\* C36: once stop() has been called and run() has returned, the tracker holds
\* no position and the status snapshot reports has_position = false.
C36_FlatAfterStop ==
    (stopped /\ rpc = "returned" /\ hpc = "idle") =>
        /\ current_position = None
        /\ ~Status.has_position
        /\ Status.position = None

----------------------------------------------------------------------------
(* Properties of the sequence of alerts *)

Directions == {Some(STRATEGY1), Some(STRATEGY2)}

\* C37: the alerts the tracker emits alternate entry, close, entry, close, ...
\* and start with an entry: an entry alert is emitted only when the alert before
\* it was a close or there was none, a close alert only when the alert before it
\* was an entry, whose direction is the direction of the position the close
\* alert carries; every alert is one of these; and between observations a
\* position is held exactly when the alert emitted last was an entry, that is,
\* when entries outnumber closes by one.
C37_AlertsAlternate ==
    /\ [][/\ (Handled /\ EntryFired) =>
                /\ last_alert \notin Directions
                /\ last_alert' = Some(current_position'[1].signal_type)
                /\ alert'[1].signal.signal_type = last_alert'
          /\ (Handled /\ CloseFired) =>
                /\ last_alert \in Directions
                /\ alert'[1].position # None
                /\ Some(alert'[1].position[1].signal_type) = last_alert
                /\ last_alert' = Some(CLOSE)
          /\ (alert' # None /\ alert' # alert) =>
                /\ Handled
                /\ EntryFired \/ CloseFired
          /\ last_alert' # last_alert => alert' # None /\ alert' # alert]_vars
    /\ [](/\ hpc = "idle" => (current_position # None <=> last_alert \in Directions)
          /\ last_alert = None => current_position = None /\ alert = None)

\* C37 witness: entry, close, entry, close have been emitted, one round for each
\* direction, and the tracker is between observations with no position.
C37_Witness ==
    /\ hpc = "idle"
    /\ last_alert = Some(CLOSE)
    /\ current_position = None
    /\ DOMAIN last_signal_time = {STRATEGY1, STRATEGY2}

----------------------------------------------------------------------------
(* Properties of the prices a position is opened at *)

\* C38: every position the tracker opens from an observation of a source has
\* entry prices estimate_pnl can divide by: neither the entry BTC price nor the
\* entry ETH price is zero, so the close check of a later observation never
\* raises.
C38_EntryPricesNonZero ==
    current_position # None =>
        /\ current_position[1].entry_btc_price # 0
        /\ current_position[1].entry_eth_price # 0
        /\ ~HandlerRaises

----------------------------------------------------------------------------
(* Properties of the accepted configurations *)

\* C39: the configuration the tracker runs under, which validate() accepted,
\* has close threshold < entry threshold < ceiling, and so no observation that
\* starts an entry has a spread within the close threshold.
C39_ThresholdsOrdered ==
    /\ [](/\ ValidateStrategy(cfg)
          /\ cfg.spread_close_threshold < cfg.spread_threshold
          /\ cfg.spread_threshold < cfg.spread_max)
    /\ [][(Handled /\ EntryFired) => ~SpreadNormalized(sig'[1])]_vars

----------------------------------------------------------------------------
(* Properties of the construction of the orchestrator *)

\* C40: for every configuration validate() accepts, main gets its trader (the
\* construction does not raise), and the trader's list of sinks holds the
\* Telegram sink exactly when Telegram is enabled with a token and the Discord
\* sink exactly when Discord is enabled with a webhook URL.
C40_ConstructionSucceeds ==
    (probe # None /\ probe[1].errors = Some(<< >>)) =>
        LET c == probe[1].config IN
        /\ probe[1].mpc # "raised"
        /\ probe[1].built # None
        /\ (\E i \in DOMAIN probe[1].built[1] : probe[1].built[1][i] = TELEGRAM)
              <=> (c.telegram_enabled /\ ~Lacking(c.telegram_bot_token))
        /\ (\E i \in DOMAIN probe[1].built[1] : probe[1].built[1][i] = DISCORD)
              <=> (c.discord_enabled /\ ~Lacking(c.discord_webhook_url))

====
